---- MODULE Spec2Model ----
(***************************************************************************)
(* A model of the community-issue learning platform: the response parsers  *)
(* (mission_generator.py, ai_mentor.py), the Domain Services and the       *)
(* Orchestrator pipelines (integrated_system.py).                          *)
(*                                                                         *)
(* Text is a sequence of characters; a character is a one-character        *)
(* string.  The non-ASCII bullet characters of ai_mentor.py:416 are        *)
(* written by their code point ("U+2022" is the bullet).                   *)
(***************************************************************************)
EXTENDS Integers, Sequences, FiniteSets, TLC

VARIABLES
    text,                   \* the response text handed to a parser
    op,                     \* the operation that produced out ("none" at first)
    out,                    \* the value the operation returned
    raised,                 \* the exception that left it ("none": it returned)
    calls,                  \* the Domain Service calls of the last pipeline run
    conversation_history,   \* AIMentor.conversation_history
    mentor_conversation     \* st.session_state.mentor_conversation of the UI

vars ==
    <<text, op, out, raised, calls, conversation_history, mentor_conversation>>

(***************************************************************************)
(* Python's str operations, as the parsers use them.  Offsets are 0-based, *)
(* as in the source; find returns -1 when there is no occurrence.          *)
(***************************************************************************)
Whitespace == {" ", "\t", "\n", "\r", "\f"}

Digits == {"0", "1", "2", "3", "4", "5", "6", "7", "8", "9"}

\* s[a:b] for 0 <= a and 0 <= b
PySlice(s, a, b) ==
    LET hi == IF b > Len(s) THEN Len(s) ELSE b
    IN  IF a >= hi THEN <<>> ELSE SubSeq(s, a + 1, hi)

\* the least member of a non-empty set of offsets
LeastOf(S) == CHOOSE x \in S : \A y \in S : x <= y

\* the offsets from start on at which pat occurs in s
OccurrencesFrom(s, pat, start) ==
    {i \in start..(Len(s) - Len(pat)) :
        s[i + 1] = pat[1] /\ SubSeq(s, i + 1, i + Len(pat)) = pat}

\* s.find(pat, start) for a non-empty pat
PyFind(s, pat, start) ==
    IF OccurrencesFrom(s, pat, start) = {} THEN -1
    ELSE LeastOf(OccurrencesFrom(s, pat, start))

\* pat in s
PyIn(pat, s) == PyFind(s, pat, 0) # -1

RECURSIVE LeadingIn(_, _, _)
\* the number of characters of s from offset i on that lie in chars
LeadingIn(s, chars, i) ==
    IF i < Len(s) /\ s[i + 1] \in chars THEN LeadingIn(s, chars, i + 1) ELSE i

RECURSIVE TrailingIn(_, _, _)
TrailingIn(s, chars, j) ==
    IF j > 0 /\ s[j] \in chars THEN TrailingIn(s, chars, j - 1) ELSE j

\* s.lstrip(chars)
PyLStrip(s, chars) == PySlice(s, LeadingIn(s, chars, 0), Len(s))

\* s.strip()
PyStrip(s) ==
    LET a == LeadingIn(s, Whitespace, 0)
        b == TrailingIn(s, Whitespace, Len(s))
    IN  PySlice(s, a, b)

RECURSIVE SplitFrom(_, _, _)
\* the parts of s from offset from on, one recursion per part
SplitFrom(s, sep, from) ==
    LET at == PyFind(s, sep, from)
    IN  IF at = -1 THEN <<PySlice(s, from, Len(s))>>
        ELSE <<PySlice(s, from, at)>> \o SplitFrom(s, sep, at + Len(sep))

\* s.split(sep) for a non-empty sep
PySplit(s, sep) == SplitFrom(s, sep, 0)

\* s.split(sep, 1)[1] for a non-empty sep that occurs in s
PySplitOnceTail(s, sep) == PySlice(s, PyFind(s, sep, 0) + Len(sep), Len(s))

RECURSIVE JoinWith(_, _)
\* sep.join(parts)
JoinWith(parts, sep) ==
    IF parts = <<>> THEN <<>>
    ELSE IF Len(parts) = 1 THEN parts[1]
    ELSE parts[1] \o sep \o JoinWith(Tail(parts), sep)

(***************************************************************************)
(* AIMentor._parse_list_items                                              *)
(***************************************************************************)
BulletChars ==
    {"U+2022", "-", "U+2013", "U+2014", "*", "U+25BA", "U+25AA", "U+25AB"}

NumberPrefixWindow == 3

\* the test of line 417 without its '.' part
HasNumberPrefix_DigitOnly(line) == line[1] \in Digits

\* the test of line 417 with a window one character wider
HasNumberPrefix_WiderWindow(line) ==
    /\ line[1] \in Digits
    /\ PyIn(<<".">>, PySlice(line, 0, NumberPrefixWindow + 1))

\* line[0].isdigit() and '.' in line[:3], for a non-empty line
HasNumberPrefix(line) ==
    /\ line[1] \in Digits
    /\ PyIn(<<".">>, PySlice(line, 0, NumberPrefixWindow))

\* the loop body without the lstrip of line 416: bullets stay on the item
ListItemOf_KeepsBullets(rawline) ==
    LET line == PyStrip(rawline)
    IN  IF line = <<>> THEN <<>>
        ELSE IF HasNumberPrefix(line)
             THEN PyStrip(PySplitOnceTail(line, <<".">>))
             ELSE line

\* the item one line of the text gives, <<>> when it gives none
ListItemOf(rawline) ==
    LET line == PyStrip(rawline)
    IN  IF line = <<>> THEN <<>>
        ELSE LET unbulleted == PyStrip(PyLStrip(line, BulletChars))
             IN  IF unbulleted # <<>> /\ HasNumberPrefix(unbulleted)
                 THEN PyStrip(PySplitOnceTail(unbulleted, <<".">>))
                 ELSE unbulleted

RECURSIVE CollectItems(_)
CollectItems(lines) ==
    IF lines = <<>> THEN <<>>
    ELSE LET item == ListItemOf(Head(lines))
         IN  (IF item # <<>> THEN <<item>> ELSE <<>>) \o CollectItems(Tail(lines))

_parse_list_items(t) == CollectItems(PySplit(t, <<"\n">>))

(***************************************************************************)
(* The section headers of the two Section Maps.                            *)
(***************************************************************************)
\* 'MISSION STATEMENT:'
H_MISSION_STATEMENT ==
    <<"M", "I", "S", "S", "I", "O", "N", " ", "S", "T", "A", "T", "E", "M",
      "E", "N", "T", ":">>

\* 'Mission Statement:'
H_Mission_Statement ==
    <<"M", "i", "s", "s", "i", "o", "n", " ", "S", "t", "a", "t", "e", "m",
      "e", "n", "t", ":">>

\* 'PROBLEM DEFINITION:'
H_PROBLEM_DEFINITION ==
    <<"P", "R", "O", "B", "L", "E", "M", " ", "D", "E", "F", "I", "N", "I",
      "T", "I", "O", "N", ":">>

\* 'Problem Definition:'
H_Problem_Definition ==
    <<"P", "r", "o", "b", "l", "e", "m", " ", "D", "e", "f", "i", "n", "i",
      "t", "i", "o", "n", ":">>

\* 'GOAL:'
H_GOAL == <<"G", "O", "A", "L", ":">>

\* 'Goal:'
H_Goal == <<"G", "o", "a", "l", ":">>

\* 'EXPECTED IMPACT:'
H_EXPECTED_IMPACT ==
    <<"E", "X", "P", "E", "C", "T", "E", "D", " ", "I", "M", "P", "A", "C",
      "T", ":">>

\* 'Expected Impact:'
H_Expected_Impact ==
    <<"E", "x", "p", "e", "c", "t", "e", "d", " ", "I", "m", "p", "a", "c",
      "t", ":">>

\* 'ACTION STEPS:'
H_ACTION_STEPS ==
    <<"A", "C", "T", "I", "O", "N", " ", "S", "T", "E", "P", "S", ":">>

\* 'Action Steps:'
H_Action_Steps ==
    <<"A", "c", "t", "i", "o", "n", " ", "S", "t", "e", "p", "s", ":">>

\* 'GUIDING QUESTIONS:'
H_GUIDING_QUESTIONS ==
    <<"G", "U", "I", "D", "I", "N", "G", " ", "Q", "U", "E", "S", "T", "I",
      "O", "N", "S", ":">>

\* 'Guiding Questions:'
H_Guiding_Questions ==
    <<"G", "u", "i", "d", "i", "n", "g", " ", "Q", "u", "e", "s", "t", "i",
      "o", "n", "s", ":">>

\* 'REFLECTION PROMPTS:'
H_REFLECTION_PROMPTS ==
    <<"R", "E", "F", "L", "E", "C", "T", "I", "O", "N", " ", "P", "R", "O",
      "M", "P", "T", "S", ":">>

\* 'Reflection Prompts:'
H_Reflection_Prompts ==
    <<"R", "e", "f", "l", "e", "c", "t", "i", "o", "n", " ", "P", "r", "o",
      "m", "p", "t", "s", ":">>

\* 'CHALLENGE POINTS:'
H_CHALLENGE_POINTS ==
    <<"C", "H", "A", "L", "L", "E", "N", "G", "E", " ", "P", "O", "I", "N",
      "T", "S", ":">>

\* 'Challenge Points:'
H_Challenge_Points ==
    <<"C", "h", "a", "l", "l", "e", "n", "g", "e", " ", "P", "o", "i", "n",
      "t", "s", ":">>

\* 'NEXT STEPS:'
H_NEXT_STEPS == <<"N", "E", "X", "T", " ", "S", "T", "E", "P", "S", ":">>

\* 'Next Steps:'
H_Next_Steps == <<"N", "e", "x", "t", " ", "S", "t", "e", "p", "s", ":">>

\* sections of MissionStatementGenerator._parse_mission_response, in dict order
MissionSections ==
    << [key |-> "mission_statement",
        headers |-> <<H_MISSION_STATEMENT, H_Mission_Statement>>],
       [key |-> "problem_definition",
        headers |-> <<H_PROBLEM_DEFINITION, H_Problem_Definition>>],
       [key |-> "goal", headers |-> <<H_GOAL, H_Goal>>],
       [key |-> "expected_impact",
        headers |-> <<H_EXPECTED_IMPACT, H_Expected_Impact>>],
       [key |-> "action_steps", headers |-> <<H_ACTION_STEPS, H_Action_Steps>>] >>

\* the Socratic map with the mission map's headers under next_steps
SocraticSections_MissionSteps ==
    << [key |-> "questions",
        headers |-> <<H_GUIDING_QUESTIONS, H_Guiding_Questions>>],
       [key |-> "reflections",
        headers |-> <<H_REFLECTION_PROMPTS, H_Reflection_Prompts>>],
       [key |-> "challenges",
        headers |-> <<H_CHALLENGE_POINTS, H_Challenge_Points>>],
       [key |-> "next_steps", headers |-> <<H_ACTION_STEPS, H_Action_Steps>>] >>

\* sections of AIMentor._parse_socratic_response, in dict order
SocraticSections ==
    << [key |-> "questions",
        headers |-> <<H_GUIDING_QUESTIONS, H_Guiding_Questions>>],
       [key |-> "reflections",
        headers |-> <<H_REFLECTION_PROMPTS, H_Reflection_Prompts>>],
       [key |-> "challenges",
        headers |-> <<H_CHALLENGE_POINTS, H_Challenge_Points>>],
       [key |-> "next_steps", headers |-> <<H_NEXT_STEPS, H_Next_Steps>>] >>

\* A parsed value keeps its Python type: a str and a list are never equal,
\* and '' is not [].
Str(s) == [type |-> "str", value |-> s]

List(items) == [type |-> "list", value |-> items]

SectionKeys(sections) == {sections[i].key : i \in 1..Len(sections)}

SectionOf(sections, key) ==
    sections[CHOOSE i \in 1..Len(sections) : sections[i].key = key]

RECURSIVE FirstHeaderIn_NoBreak(_, _)
\* the loop without its break: the last variant that occurs is the one used
FirstHeaderIn_NoBreak(headers, response) ==
    IF headers = <<>> THEN <<>>
    ELSE LET later == FirstHeaderIn_NoBreak(Tail(headers), response)
         IN  IF later # <<>> THEN later
             ELSE IF PyIn(Head(headers), response) THEN Head(headers)
             ELSE <<>>

\* a lookup that tries only the first variant of a key
FirstHeaderIn_FirstVariantOnly(headers, response) ==
    IF headers # <<>> /\ PyIn(Head(headers), response)
    THEN Head(headers)
    ELSE <<>>

RECURSIVE FirstHeaderIn(_, _)
\* for header in headers: if header in response: ... break
\* the header the loop stops at, <<>> when it stops at none
FirstHeaderIn(headers, response) ==
    IF headers = <<>> THEN <<>>
    ELSE IF PyIn(Head(headers), response) THEN Head(headers)
    ELSE FirstHeaderIn(Tail(headers), response)

RECURSIVE HeadersExcept(_, _)
\* the headers of every section whose key is not key, in iteration order
HeadersExcept(sections, key) ==
    IF sections = <<>> THEN <<>>
    ELSE (IF Head(sections).key # key THEN Head(sections).headers ELSE <<>>)
             \o HeadersExcept(Tail(sections), key)

RECURSIVE AllHeaders(_)
AllHeaders(sections) ==
    IF sections = <<>> THEN <<>>
    ELSE Head(sections).headers \o AllHeaders(Tail(sections))

(***************************************************************************)
(* MissionStatementGenerator._parse_mission_response                       *)
(***************************************************************************)
RECURSIVE NextHeaderIdx(_, _, _)
\* the inner loops of lines 97-102, over the other keys' headers
NextHeaderIdx(remaining, other_headers, next_header_idx) ==
    IF other_headers = <<>> THEN next_header_idx
    ELSE LET idx == PyFind(remaining, Head(other_headers), 0)
         IN  NextHeaderIdx(remaining, Tail(other_headers),
                 IF idx # -1 /\ idx < next_header_idx
                 THEN idx ELSE next_header_idx)

\* the content without the strip() of line 104
MissionContent_Unstripped(response, key, header) ==
    LET start_idx == PyFind(response, header, 0) + Len(header)
        remaining == PySlice(response, start_idx, Len(response))
        next_header_idx ==
            NextHeaderIdx(remaining, HeadersExcept(MissionSections, key),
                          Len(remaining))
    IN  PySlice(remaining, 0, next_header_idx)

\* lines 92-104: the content of the section that header opens
MissionContent(response, key, header) ==
    LET start_idx == PyFind(response, header, 0) + Len(header)
        remaining == PySlice(response, start_idx, Len(response))
        next_header_idx ==
            NextHeaderIdx(remaining, HeadersExcept(MissionSections, key),
                          Len(remaining))
    IN  PyStrip(PySlice(remaining, 0, next_header_idx))

\* the condition of lines 109-110 with '*' taken as a bullet too
IsStepLine_StarBullet(stripped) ==
    /\ stripped # <<>>
    /\ \/ stripped[1] \in Digits
       \/ stripped[1] \in {"-", "*", "U+2022"}

\* the condition of lines 109-110 on a stripped line
IsStepLine(stripped) ==
    /\ stripped # <<>>
    /\ \/ stripped[1] \in Digits
       \/ stripped[1] = "-"
       \/ stripped[1] = "U+2022"

RECURSIVE StepLines(_)
StepLines(lines) ==
    IF lines = <<>> THEN <<>>
    ELSE LET stripped == PyStrip(Head(lines))
         IN  (IF IsStepLine(stripped) THEN <<stripped>> ELSE <<>>)
                 \o StepLines(Tail(lines))

\* lines 107-113: the value stored under key
MissionValue(key, content) ==
    IF key = "action_steps"
    THEN List(StepLines(PySplit(content, <<"\n">>)))
    ELSE Str(content)

_parse_mission_response(response) ==
    LET found == {k \in SectionKeys(MissionSections) :
                     FirstHeaderIn(SectionOf(MissionSections, k).headers,
                                   response) # <<>>}
    IN  [k \in found |->
            MissionValue(k,
                MissionContent(response, k,
                    FirstHeaderIn(SectionOf(MissionSections, k).headers,
                                  response)))]

(***************************************************************************)
(* AIMentor._extract_section_content and _parse_socratic_response          *)
(***************************************************************************)
RECURSIVE SectionEndIdx(_, _, _, _, _)
\* the loops of lines 399-404, over every section's headers
SectionEndIdx(response, header, start_idx, headers, end_idx) ==
    IF headers = <<>> THEN end_idx
    ELSE LET other_header == Head(headers)
             idx == PyFind(response, other_header, start_idx)
         IN  SectionEndIdx(response, header, start_idx, Tail(headers),
                 IF /\ other_header # header
                    /\ PyIn(other_header,
                            PySlice(response, start_idx, Len(response)))
                    /\ idx < end_idx
                 THEN idx ELSE end_idx)

_extract_section_content(response, header, all_sections) ==
    LET start_idx == PyFind(response, header, 0) + Len(header)
        end_idx == SectionEndIdx(response, header, start_idx,
                                 AllHeaders(all_sections), Len(response))
    IN  PyStrip(PySlice(response, start_idx, end_idx))

_parse_socratic_response(response) ==
    LET found == {k \in SectionKeys(SocraticSections) :
                     FirstHeaderIn(SectionOf(SocraticSections, k).headers,
                                   response) # <<>>}
    IN  [k \in found |->
            List(_parse_list_items(
                _extract_section_content(response,
                    FirstHeaderIn(SectionOf(SocraticSections, k).headers,
                                  response),
                    SocraticSections)))]

(***************************************************************************)
(* Letter case, as str.lower, str.upper, str.isupper and str.capitalize    *)
(* treat the ASCII letters.                                                *)
(***************************************************************************)
UpperLetters == <<"A", "B", "C", "D", "E", "F", "G", "H", "I", "J", "K", "L",
                  "M", "N", "O", "P", "Q", "R", "S", "T", "U", "V", "W", "X",
                  "Y", "Z">>

LowerLetters == <<"a", "b", "c", "d", "e", "f", "g", "h", "i", "j", "k", "l",
                  "m", "n", "o", "p", "q", "r", "s", "t", "u", "v", "w", "x",
                  "y", "z">>

ToLower ==
    [c \in {UpperLetters[i] : i \in 1..Len(UpperLetters)} |->
        LowerLetters[CHOOSE i \in 1..Len(UpperLetters) : UpperLetters[i] = c]]

ToUpper ==
    [c \in {LowerLetters[i] : i \in 1..Len(LowerLetters)} |->
        UpperLetters[CHOOSE i \in 1..Len(LowerLetters) : LowerLetters[i] = c]]

PyLower(s) ==
    [i \in 1..Len(s) |-> IF s[i] \in DOMAIN ToLower THEN ToLower[s[i]] ELSE s[i]]

PyUpper(s) ==
    [i \in 1..Len(s) |-> IF s[i] \in DOMAIN ToUpper THEN ToUpper[s[i]] ELSE s[i]]

\* s.isupper(): a cased character, and no lower-case one
PyIsUpper(s) ==
    /\ \E i \in 1..Len(s) : s[i] \in DOMAIN ToLower
    /\ \A i \in 1..Len(s) : s[i] \notin DOMAIN ToUpper

\* s.capitalize()
PyCapitalize(s) ==
    IF s = <<>> THEN <<>> ELSE PyUpper(<<s[1]>>) \o PyLower(Tail(s))

\* s.title(): a letter that follows a letter is lower-cased, any other letter
\* upper-cased
PyTitle(s) ==
    LET Letters == DOMAIN ToLower \cup DOMAIN ToUpper
    IN  [i \in 1..Len(s) |->
            IF i > 1 /\ s[i - 1] \in Letters
            THEN PyLower(<<s[i]>>)[1]
            ELSE PyUpper(<<s[i]>>)[1]]

(***************************************************************************)
(* ProblemClassifier._parse_classification                                 *)
(***************************************************************************)
\* Config.CATEGORIES
Categories == << <<"E", "n", "v", "i", "r", "o", "n", "m", "e", "n", "t">>,
                <<"H", "e", "a", "l", "t", "h">>, <<"E", "d", "u", "c", "a",
                "t", "i", "o", "n">> >>

RECURSIVE FirstCategoryIn_LastListed(_, _)
\* the loop of lines 129-132 without its break: the last match stays
FirstCategoryIn_LastListed(cats, lowered) ==
    IF cats = <<>> THEN <<>>
    ELSE IF PyIn(PyLower(cats[Len(cats)]), lowered) THEN cats[Len(cats)]
    ELSE FirstCategoryIn_LastListed(SubSeq(cats, 1, Len(cats) - 1), lowered)

RECURSIVE FirstCategoryIn(_, _)
\* for cat in self.categories: if cat.lower() in lowered: category = cat; break
\* (None is written <<>>: the code only asks "not category")
FirstCategoryIn(cats, lowered) ==
    IF cats = <<>> THEN <<>>
    ELSE IF PyIn(PyLower(Head(cats)), lowered) THEN Head(cats)
    ELSE FirstCategoryIn(Tail(cats), lowered)

RECURSIVE CategoryFromLines(_, _)
\* lines 138-143: every line holding "CATEGORY:" may assign the category
CategoryFromLines(lines, category) ==
    IF lines = <<>> THEN category
    ELSE CategoryFromLines(Tail(lines),
             IF /\ PyIn(<<"C", "A", "T", "E", "G", "O", "R", "Y", ":">>,
                          PyUpper(Head(lines)))
                /\ FirstCategoryIn(Categories, PyLower(Head(lines))) # <<>>
             THEN FirstCategoryIn(Categories, PyLower(Head(lines)))
             ELSE category)

\* lines 128-143 with the lines under a category header searched first
MatchedCategory_StructuredFirst(response) ==
    IF \/ PyIn(<<"P", "R", "I", "M", "A", "R", "Y", " ", "C",
                 "A", "T", "E", "G", "O", "R", "Y", ":">>,
               response)
       \/ PyIn(<<"C", "a", "t", "e", "g", "o", "r", "y", ":">>, response)
    THEN CategoryFromLines(PySplit(response, <<"\n">>), <<>>)
    ELSE FirstCategoryIn(Categories, PyLower(response))

\* lines 128-143: the category the two searches give, <<>> when they give none
MatchedCategory(response) ==
    LET first == FirstCategoryIn(Categories, PyLower(response))
    IN  IF first # <<>> THEN first
        ELSE IF \/ PyIn(<<"P", "R", "I", "M", "A", "R", "Y", " ", "C",
                          "A", "T", "E", "G", "O", "R", "Y", ":">>,
                          response)
                \/ PyIn(<<"C", "a", "t", "e", "g", "o", "r", "y", ":">>,
                          response)
             THEN CategoryFromLines(PySplit(response, <<"\n">>), <<>>)
             ELSE <<>>

\* lines 128-147 with the fallback of line 147 taking the last category
ClassifiedCategory_LastDefault(response) ==
    IF MatchedCategory(response) # <<>>
    THEN MatchedCategory(response)
    ELSE Categories[Len(Categories)]

\* lines 128-147
ClassifiedCategory(response) ==
    IF MatchedCategory(response) # <<>>
    THEN MatchedCategory(response)
    ELSE Categories[1]

\* confidence_keywords, in dict order
ConfidenceKeywords ==
    << [level |-> <<"h", "i", "g", "h">>,
        keywords |-> << <<"h", "i", "g", "h">>, <<"v", "e", "r", "y", " ",
                       "c", "o", "n", "f", "i", "d", "e", "n", "t">>, <<"d",
                       "e", "f", "i", "n", "i", "t", "e", "l", "y">>, <<"c",
                       "l", "e", "a", "r", "l", "y">> >>],
       [level |-> <<"m", "e", "d", "i", "u", "m">>,
        keywords |-> << <<"m", "e", "d", "i", "u", "m">>, <<"m", "o", "d",
                       "e", "r", "a", "t", "e">>, <<"f", "a", "i", "r", "l",
                       "y">>, <<"s", "o", "m", "e", "w", "h", "a", "t">> >>],
       [level |-> <<"l", "o", "w">>,
        keywords |-> << <<"l", "o", "w">>, <<"u", "n", "c", "e", "r", "t",
                       "a", "i", "n">>, <<"p", "o", "s", "s", "i", "b", "l",
                       "y">>, <<"m", "i", "g", "h", "t">> >>] >>

\* any(keyword in s for keyword in keywords)
AnyIn(keywords, s) == \E i \in 1..Len(keywords) : PyIn(keywords[i], s)

RECURSIVE ConfidenceFrom_LastGroupWins(_, _)
\* the loop of lines 157-160 without its break: the last group present stays
ConfidenceFrom_LastGroupWins(groups, response_lower) ==
    IF groups = <<>> THEN <<"U", "n", "k", "n", "o", "w", "n">>
    ELSE IF AnyIn(groups[Len(groups)].keywords, response_lower)
         THEN PyCapitalize(groups[Len(groups)].level)
         ELSE ConfidenceFrom_LastGroupWins(SubSeq(groups, 1, Len(groups) - 1),
                                           response_lower)

RECURSIVE ConfidenceFrom(_, _)
\* lines 157-160
ConfidenceFrom(groups, response_lower) ==
    IF groups = <<>> THEN <<"U", "n", "k", "n", "o", "w", "n">>
    ELSE IF AnyIn(Head(groups).keywords, response_lower)
         THEN PyCapitalize(Head(groups).level)
         ELSE ConfidenceFrom(Tail(groups), response_lower)

ReasoningMarkers == << <<"R", "E", "A", "S", "O", "N", "I", "N", "G", ":">>,
                      <<"R", "e", "a", "s", "o", "n", "i", "n", "g", ":">>,
                      <<"b", "e", "c", "a", "u", "s", "e">>, <<"B", "e", "c",
                      "a", "u", "s", "e">> >>

RECURSIVE ReasoningFrom(_, _)
\* lines 164-168; '' when no marker occurs
ReasoningFrom(markers, response) ==
    IF markers = <<>> THEN <<>>
    ELSE IF PyIn(Head(markers), response)
         THEN PyStrip(PySlice(response, PyFind(response, Head(markers), 0),
                              Len(response)))
         ELSE ReasoningFrom(Tail(markers), response)

\* _parse_classification without the fallback of lines 170-171
_parse_classification_NoFallback(response) ==
    [category |-> ClassifiedCategory(response),
     confidence |-> ConfidenceFrom(ConfidenceKeywords, PyLower(response)),
     reasoning |-> ReasoningFrom(ReasoningMarkers, response)]

\* the tuple (category, confidence, reasoning)
_parse_classification(response) ==
    [category |-> ClassifiedCategory(response),
     confidence |-> ConfidenceFrom(ConfidenceKeywords, PyLower(response)),
     reasoning |->
         IF ReasoningFrom(ReasoningMarkers, response) # <<>>
         THEN ReasoningFrom(ReasoningMarkers, response)
         ELSE response]

(***************************************************************************)
(* AILearningPlatform._extract_problem_description                         *)
(***************************************************************************)
DescriptionLines == 3

DescriptionFallbackLen == 200

RECURSIVE IssueLines(_)
\* lines 127-128: the stripped lines that are not blank and do not start
\* with 'DETECTED'
IssueLines(lines) ==
    IF lines = <<>> THEN <<>>
    ELSE LET stripped == PyStrip(Head(lines))
         IN  (IF /\ stripped # <<>>
                 /\ PySlice(stripped, 0, Len(<<"D", "E", "T", "E", "C", "T",
                     "E", "D">>)) # <<"D", "E", "T", "E", "C", "T", "E", "D">>
              THEN <<stripped>> ELSE <<>>) \o IssueLines(Tail(lines))

_extract_problem_description(vision_analysis) ==
    IF PyIn(<<"D", "E", "T", "E", "C", "T", "E", "D", " ", "I", "S", "S",
              "U", "E", "S", ":">>, vision_analysis)
    THEN LET start == PyFind(vision_analysis, <<"D", "E", "T", "E", "C", "T",
        "E", "D", " ", "I", "S", "S", "U", "E", "S", ":">>, 0)
             end1 == PyFind(vision_analysis, <<"V", "I", "S", "U", "A", "L",
                 " ", "E", "V", "I", "D", "E", "N", "C", "E", ":">>, start)
             end2 == IF end1 = -1
                     THEN PyFind(vision_analysis, <<"R", "E", "C", "O", "M",
                         "M", "E", "N", "D", "A", "T", "I", "O", "N", "S",
                         ":">>, start)
                     ELSE end1
             end == IF end2 = -1 THEN Len(vision_analysis) ELSE end2
             lines == IssueLines(
                          PySplit(PyStrip(PySlice(vision_analysis, start,
                              end)),
                                  <<"\n">>))
         IN  IF lines # <<>>
             THEN JoinWith(PySlice(lines, 0, DescriptionLines), <<" ">>)
             ELSE PySlice(vision_analysis, 0, DescriptionFallbackLen)
    ELSE PyStrip(PySlice(vision_analysis, 0, DescriptionFallbackLen))

(***************************************************************************)
(* AIMentor._determine_template_type and the template parsers              *)
(***************************************************************************)
\* the keyword groups of lines 315-321, in the order they are tried
TemplateKeywords ==
    << [kind |-> "budget",
        keywords |-> << <<"b", "u", "d", "g", "e", "t">>, <<"c", "o", "s",
                       "t">>, <<"f", "u", "n", "d", "i", "n", "g">>, <<"m",
                       "o", "n", "e", "y">>, <<"f", "i", "n", "a", "n", "c",
                       "e">> >>],
       [kind |-> "stakeholder",
        keywords |-> << <<"s", "t", "a", "k", "e", "h", "o", "l", "d", "e",
                       "r">>, <<"c", "o", "m", "m", "u", "n", "i", "t",
                       "y">>, <<"p", "e", "o", "p", "l", "e">>, <<"i", "n",
                       "v", "o", "l", "v", "e">> >>],
       [kind |-> "timeline",
        keywords |-> << <<"t", "i", "m", "e", "l", "i", "n", "e">>, <<"s",
                       "c", "h", "e", "d", "u", "l", "e">>, <<"w", "h", "e",
                       "n">>, <<"d", "e", "a", "d", "l", "i", "n", "e">> >>],
       [kind |-> "swot",
        keywords |-> << <<"s", "t", "r", "e", "n", "g", "t", "h">>, <<"w",
                       "e", "a", "k", "n", "e", "s", "s">>, <<"o", "p", "p",
                       "o", "r", "t", "u", "n", "i", "t", "y">>, <<"t", "h",
                       "r", "e", "a", "t">>, <<"a", "n", "a", "l", "y", "z",
                       "e">> >>] >>

RECURSIVE TemplateFrom_LastGroupWins(_, _)
\* the cascade of lines 315-324 as independent ifs: the last group present stays
TemplateFrom_LastGroupWins(groups, desc_lower) ==
    IF groups = <<>> THEN "action_plan"
    ELSE IF AnyIn(groups[Len(groups)].keywords, desc_lower)
         THEN groups[Len(groups)].kind
         ELSE TemplateFrom_LastGroupWins(SubSeq(groups, 1, Len(groups) - 1),
                                         desc_lower)

RECURSIVE TemplateFrom(_, _)
TemplateFrom(groups, desc_lower) ==
    IF groups = <<>> THEN "action_plan"
    ELSE IF AnyIn(Head(groups).keywords, desc_lower) THEN Head(groups).kind
    ELSE TemplateFrom(Tail(groups), desc_lower)

_determine_template_type(problem_description, category) ==
    TemplateFrom(TemplateKeywords, PyLower(problem_description))

RECURSIVE WithoutChar(_, _)
\* s.replace(c, '')
WithoutChar(s, c) ==
    IF s = <<>> THEN <<>>
    ELSE (IF Head(s) = c THEN <<>> ELSE <<Head(s)>>) \o WithoutChar(Tail(s),
                                c)

RECURSIVE StructureFrom_KeepsEarlier(_, _, _)
\* the loop of lines 378-388 with a repeated header keeping its items
StructureFrom_KeepsEarlier(lines, structure, current_section) ==
    IF lines = <<>> THEN structure
    ELSE LET line == PyStrip(Head(lines))
             section == PyStrip(WithoutChar(line, ":"))
         IN  IF line = <<>>
             THEN StructureFrom_KeepsEarlier(Tail(lines), structure,
                                             current_section)
             ELSE IF PyIsUpper(line) /\ PyIn(<<":">>, line)
             THEN StructureFrom_KeepsEarlier(Tail(lines),
                      [k \in DOMAIN structure \cup {section} |->
                          IF k \in DOMAIN structure THEN structure[k]
                          ELSE <<>>],
                      section)
             ELSE IF current_section # <<>>
             THEN StructureFrom_KeepsEarlier(Tail(lines),
                      [structure EXCEPT ![current_section] = @ \o <<line>>],
                      current_section)
             ELSE StructureFrom_KeepsEarlier(Tail(lines), structure,
                                             current_section)

RECURSIVE StructureFrom(_, _, _)
\* the loop of lines 378-388; current_section None is written <<>>
StructureFrom(lines, structure, current_section) ==
    IF lines = <<>> THEN structure
    ELSE LET line == PyStrip(Head(lines))
             section == PyStrip(WithoutChar(line, ":"))
         IN  IF line = <<>>
             THEN StructureFrom(Tail(lines), structure, current_section)
             ELSE IF PyIsUpper(line) /\ PyIn(<<":">>, line)
             THEN StructureFrom(Tail(lines),
                      [k \in DOMAIN structure \cup {section} |->
                          IF k = section THEN <<>> ELSE structure[k]],
                      section)
             ELSE IF current_section # <<>>
             THEN StructureFrom(Tail(lines),
                      [structure EXCEPT ![current_section] = @ \o <<line>>],
                      current_section)
             ELSE StructureFrom(Tail(lines), structure, current_section)

_parse_template_structure(template_text, template_type) ==
    StructureFrom(PySplit(template_text, <<"\n">>), <<>>, <<>>)

_parse_template_response(response, template_type) ==
    IF PyIn(<<"I", "M", "P", "L", "E", "M", "E", "N", "T", "A", "T", "I",
              "O", "N", " ", "G", "U", "I", "D", "E", ":">>, response)
    THEN LET parts == PySplit(response, <<"I", "M", "P", "L", "E", "M", "E",
        "N", "T", "A", "T", "I", "O", "N", " ", "G", "U", "I", "D", "E",
        ":">>)
             template_text == parts[1]
             guide_and_rest == parts[2]
             tail == PySplit(guide_and_rest, <<"P", "R", "A", "C", "T", "I",
                 "C", "A", "L", " ", "T", "I", "P", "S", ":">>)
         IN  IF PyIn(<<"P", "R", "A", "C", "T", "I", "C", "A", "L", " ", "T",
                       "I", "P", "S", ":">>, guide_and_rest)
             THEN [template |->
                       _parse_template_structure(template_text,
                           template_type),
                   guide |-> Str(PyStrip(tail[1])),
                   tips |-> List(_parse_list_items(PyStrip(tail[2])))]
             ELSE [template |->
                       _parse_template_structure(template_text,
                           template_type),
                   guide |-> Str(PyStrip(guide_and_rest)),
                   tips |-> List(<<>>)]
    ELSE [template |-> [raw |-> response],
          guide |-> Str(<<>>),
          tips |-> List(<<>>)]

(***************************************************************************)
(* Exceptions.  The parsers hold no try block, so an exception raised      *)
(* inside one leaves it.  Slices, find, split and strip never raise on a   *)
(* str; an index into a sequence does when it is out of range.  Each       *)
(* ...Raises operator lists the index expressions its parser evaluates,    *)
(* each under the conditions the code evaluates it under.                  *)
(***************************************************************************)
\* seq[i] raises IndexError (0 <= i)
IndexError(seq, i) == i >= Len(seq)

\* the exception that leaves a call, "none" when the call returns
Exception(raises) == IF raises THEN "IndexError" ELSE "none"

\* the value a call returns; a call that an exception leaves returns none
Outcome(raises, value) == IF raises THEN <<>> ELSE value

\* lines 417-418: line[0] behind "line and", split('.', 1)[1] behind the
\* whole condition of line 417 (split('.', 1) has a second part exactly
\* when split('.') has)
ListItemRaises(rawline) ==
    LET line == PyStrip(rawline)
        unbulleted == PyStrip(PyLStrip(line, BulletChars))
    IN  /\ line # <<>>
        /\ unbulleted # <<>>
        /\ \/ IndexError(unbulleted, 0)
           \/ /\ HasNumberPrefix(unbulleted)
              /\ IndexError(PySplit(unbulleted, <<".">>), 1)

\* _parse_list_items raises when the loop body does on some line
ListItemsRaise(t) ==
    LET lines == PySplit(t, <<"\n">>)
    IN  \E i \in 1..Len(lines) : ListItemRaises(lines[i])

\* mission_generator.py line 109: line.strip()[0] behind "line.strip() and"
StepLineRaises(rawline) ==
    LET stripped == PyStrip(rawline)
    IN  stripped # <<>> /\ IndexError(stripped, 0)

MissionRaises(response) ==
    \E k \in SectionKeys(MissionSections) :
        LET header == FirstHeaderIn(SectionOf(MissionSections, k).headers,
                                    response)
            lines == PySplit(MissionContent(response, k, header), <<"\n">>)
        IN  /\ header # <<>>
            /\ k = "action_steps"
            /\ \E i \in 1..Len(lines) : StepLineRaises(lines[i])

\* ai_mentor.py line 341: the call of _parse_list_items
SocraticRaises(response) ==
    \E k \in SectionKeys(SocraticSections) :
        LET header == FirstHeaderIn(SectionOf(SocraticSections, k).headers,
                                    response)
        IN  /\ header # <<>>
            /\ ListItemsRaise(_extract_section_content(response, header,
                                                       SocraticSections))

H_IMPLEMENTATION_GUIDE == <<"I", "M", "P", "L", "E", "M", "E", "N", "T", "A",
                            "T", "I", "O", "N", " ", "G", "U", "I", "D", "E",
                            ":">>

H_PRACTICAL_TIPS == <<"P", "R", "A", "C", "T", "I", "C", "A", "L", " ", "T",
                      "I", "P", "S", ":">>

\* ai_mentor.py lines 352-353 and 358-359: the [0] and [1] of the splits,
\* and line 361: the call of _parse_list_items
TemplateRaises(response) ==
    /\ PyIn(H_IMPLEMENTATION_GUIDE, response)
    /\ LET parts == PySplit(response, H_IMPLEMENTATION_GUIDE)
       IN  \/ IndexError(parts, 0)
           \/ IndexError(parts, 1)
           \/ /\ PyIn(H_PRACTICAL_TIPS, parts[2])
              /\ LET tail == PySplit(parts[2], H_PRACTICAL_TIPS)
                 IN  \/ IndexError(tail, 0)
                     \/ IndexError(tail, 1)
                     \/ ListItemsRaise(PyStrip(tail[2]))

\* problem_classifier.py line 147: self.categories[0], when no category was
\* matched
ClassificationRaises(response) ==
    /\ MatchedCategory(response) = <<>>
    /\ IndexError(Categories, 0)

(***************************************************************************)
(* The response texts handed to the section parsers: the scenario of the   *)
(* specification, and every concatenation of at most MaxChunks chunks.     *)
(***************************************************************************)
ScenarioResponse ==
    <<"M", "I", "S", "S", "I", "O", "N", " ", "S", "T", "A", "T", "E", "M",
      "E", "N", "T", ":", "\n", "R", "e", "d", "u", "c", "e", " ", "f",
      "l", "o", "o", "d", "i", "n", "g", " ", "o", "n", " ", "M", "a", "i",
      "n", " ", "S", "t", "r", "e", "e", "t", ".", "\n", "P", "R", "O",
      "B", "L", "E", "M", " ", "D", "E", "F", "I", "N", "I", "T", "I", "O",
      "N", ":", "\n", "P", "o", "o", "r", " ", "d", "r", "a", "i", "n",
      "a", "g", "e", " ", "c", "a", "u", "s", "e", "s", " ", "r", "e", "c",
      "u", "r", "r", "i", "n", "g", " ", "f", "l", "o", "o", "d", "s", ".",
      "\n", "A", "C", "T", "I", "O", "N", " ", "S", "T", "E", "P", "S",
      ":", "\n", "1", ".", " ", "S", "u", "r", "v", "e", "y", " ", "d",
      "r", "a", "i", "n", "s", "\n", "2", ".", " ", "F", "i", "l", "e",
      " ", "r", "e", "p", "a", "i", "r", " ", "r", "e", "q", "u", "e", "s",
      "t">>

ScenarioMission ==
    <<"R", "e", "d", "u", "c", "e", " ", "f", "l", "o", "o", "d", "i", "n",
      "g", " ", "o", "n", " ", "M", "a", "i", "n", " ", "S", "t", "r", "e",
      "e", "t", ".">>

ScenarioProblem ==
    <<"P", "o", "o", "r", " ", "d", "r", "a", "i", "n", "a", "g", "e", " ",
      "c", "a", "u", "s", "e", "s", " ", "r", "e", "c", "u", "r", "r", "i",
      "n", "g", " ", "f", "l", "o", "o", "d", "s", ".">>

ScenarioStep1 ==
    <<"S", "u", "r", "v", "e", "y", " ", "d", "r", "a", "i", "n", "s">>

ScenarioStep2 ==
    <<"F", "i", "l", "e", " ", "r", "e", "p", "a", "i", "r", " ", "r", "e",
      "q", "u", "e", "s", "t">>

ScenarioLine1 ==
    <<"1", ".", " ", "S", "u", "r", "v", "e", "y", " ", "d", "r", "a", "i",
      "n", "s">>

ScenarioLine2 ==
    <<"2", ".", " ", "F", "i", "l", "e", " ", "r", "e", "p", "a", "i", "r",
      " ", "r", "e", "q", "u", "e", "s", "t">>

MaxChunks == 4

ParseChunks ==
    { H_GOAL, H_Goal, H_ACTION_STEPS,
      H_NEXT_STEPS, H_Next_Steps, H_GUIDING_QUESTIONS,
      <<" ", "a", "\n">>, <<"1", ".", " ", "b">>, <<"\n", "-", " ", "c", " ">> }

RECURSIVE Concat(_)
Concat(chunks) ==
    IF chunks = <<>> THEN <<>> ELSE Head(chunks) \o Concat(Tail(chunks))

ParseTexts ==
    {ScenarioResponse}
        \cup {Concat(cs) : cs \in UNION {[1..n -> ParseChunks] : n \in 0..MaxChunks}}

ParseInit ==
    /\ text \in ParseTexts
    /\ op = "none"
    /\ out = <<>>
    /\ calls = <<>>
    /\ conversation_history = <<>>
    /\ mentor_conversation = <<>>
    /\ raised = "none"

ParseMission ==
    /\ op = "none"
    /\ op' = "_parse_mission_response"
    /\ raised' = Exception(MissionRaises(text))
    /\ out' = Outcome(MissionRaises(text),
                       _parse_mission_response(text))
    /\ UNCHANGED <<text, calls, conversation_history,
                 mentor_conversation>>

ParseSocratic ==
    /\ op = "none"
    /\ op' = "_parse_socratic_response"
    /\ raised' = Exception(SocraticRaises(text))
    /\ out' = Outcome(SocraticRaises(text),
                       _parse_socratic_response(text))
    /\ UNCHANGED <<text, calls, conversation_history,
                 mentor_conversation>>

\* the call of line 340: the header is the one the loop of 337-339 stopped at
ExtractSectionContent ==
    /\ op = "none"
    /\ \E k \in SectionKeys(SocraticSections) :
           LET header == FirstHeaderIn(SectionOf(SocraticSections, k).headers,
                                       text)
           IN  /\ header # <<>>
               /\ out' = [key |-> k,
                          header |-> header,
                          content |-> _extract_section_content(
                                          text, header, SocraticSections)]
    /\ op' = "_extract_section_content"
    /\ UNCHANGED <<text, raised, calls, conversation_history,
                 mentor_conversation>>

ParseNext == ParseMission \/ ParseSocratic \/ ExtractSectionContent

SpecParse == ParseInit /\ [][ParseNext]_vars

(***************************************************************************)
(* The External AI Service: model.generate_content(prompt) and the read of *)
(* response.text either give a text or raise; the Domain Service decides   *)
(* nothing about which.                                                    *)
(***************************************************************************)
Response(t) == [ok |-> TRUE, text |-> t]

Failure(e) == [ok |-> FALSE, error |-> e]

\* d.get(k, default)
Get(d, k, default) == IF k \in DOMAIN d THEN d[k] ELSE default

(***************************************************************************)
(* The prompt builders.  A prompt is the text sent to the model; a block   *)
(* of the source's string literal is written as the join of its lines.     *)
(* context and category None are written <<>>.                             *)
(***************************************************************************)
\* Config.DOMAIN_ISSUES
DOMAIN_ISSUES ==
    (<<"E", "n", "v", "i", "r", "o", "n", "m", "e", "n", "t">> :>
        <<
            <<"l", "i", "t", "t", "e", "r", "e", "d", " ", "s", "t", "r",
              "e", "e", "t", "s">>,
            <<"b", "l", "o", "c", "k", "e", "d", " ", "d", "r", "a", "i",
              "n", "a", "g", "e">>,
            <<"d", "e", "f", "o", "r", "e", "s", "t", "a", "t", "i", "o",
              "n">>,
            <<"p", "o", "o", "r", " ", "w", "a", "s", "t", "e", " ", "d",
              "i", "s", "p", "o", "s", "a", "l">>,
            <<"p", "o", "l", "l", "u", "t", "i", "o", "n">>,
            <<"i", "l", "l", "e", "g", "a", "l", " ", "d", "u", "m", "p",
              "i", "n", "g">>
        >>)
    @@ (<<"H", "e", "a", "l", "t", "h">> :>
        <<
            <<"o", "v", "e", "r", "c", "r", "o", "w", "d", "e", "d", " ",
              "c", "l", "i", "n", "i", "c", "s">>,
            <<"a", "b", "s", "e", "n", "c", "e", " ", "o", "f", " ", "s",
              "a", "f", "e", "t", "y", " ", "g", "e", "a", "r">>,
            <<"u", "n", "s", "a", "n", "i", "t", "a", "r", "y", " ", "p",
              "u", "b", "l", "i", "c", " ", "s", "p", "a", "c", "e", "s">>,
            <<"p", "o", "o", "r", " ", "h", "y", "g", "i", "e", "n", "e">>,
            <<"m", "e", "d", "i", "c", "a", "l", " ", "w", "a", "s", "t",
              "e", " ", "d", "i", "s", "p", "o", "s", "a", "l">>,
            <<"l", "a", "c", "k", " ", "o", "f", " ", "h", "e", "a", "l",
              "t", "h", "c", "a", "r", "e", " ", "f", "a", "c", "i", "l",
              "i", "t", "i", "e", "s">>
        >>)
    @@ (<<"E", "d", "u", "c", "a", "t", "i", "o", "n">> :>
        <<
            <<"o", "v", "e", "r", "c", "r", "o", "w", "d", "e", "d", " ",
              "c", "l", "a", "s", "s", "r", "o", "o", "m", "s">>,
            <<"d", "a", "m", "a", "g", "e", "d", " ", "s", "c", "h", "o",
              "o", "l", " ", "i", "n", "f", "r", "a", "s", "t", "r", "u",
              "c", "t", "u", "r", "e">>,
            <<"l", "a", "c", "k", " ", "o", "f", " ", "l", "e", "a", "r",
              "n", "i", "n", "g", " ", "m", "a", "t", "e", "r", "i", "a",
              "l", "s">>,
            <<"p", "o", "o", "r", " ", "f", "a", "c", "i", "l", "i", "t",
              "i", "e", "s">>,
            <<"i", "n", "a", "d", "e", "q", "u", "a", "t", "e", " ", "r",
              "e", "s", "o", "u", "r", "c", "e", "s">>,
            <<"u", "n", "s", "a", "f", "e", " ", "s", "c", "h", "o", "o",
              "l", " ", "e", "n", "v", "i", "r", "o", "n", "m", "e", "n",
              "t">>
        >>)

\* CommunityIssueDetector._create_detection_prompt
_create_detection_prompt(domains) ==
    LET known ==
            SelectSeq(domains,
                      LAMBDA domain : domain \in DOMAIN DOMAIN_ISSUES)
        domain_examples ==
            [i \in 1..Len(known) |->
                <<"-", " ">> \o known[i] \o <<":", " ">>
                \o JoinWith(PySlice(DOMAIN_ISSUES[known[i]], 0, 3),
                            <<",", " ">>)
                \o <<",", " ", "e", "t", "c", ".">>]
        examples_text == JoinWith(domain_examples, <<"\n">>)
    IN  JoinWith(<<
            <<"Y", "o", "u", " ", "a", "r", "e", " ", "a", "n", " ", "A",
              "I", " ", "a", "s", "s", "i", "s", "t", "a", "n", "t", " ",
              "s", "p", "e", "c", "i", "a", "l", "i", "z", "e", "d", " ",
              "i", "n", " ", "i", "d", "e", "n", "t", "i", "f", "y", "i",
              "n", "g", " ", "c", "o", "m", "m", "u", "n", "i", "t", "y",
              " ", "i", "s", "s", "u", "e", "s", " ", "i", "n", " ", "i",
              "m", "a", "g", "e", "s", ".">>,
            <<>>,
            <<"A", "n", "a", "l", "y", "z", "e", " ", "t", "h", "i", "s",
              " ", "i", "m", "a", "g", "e", " ", "a", "n", "d", " ", "i",
              "d", "e", "n", "t", "i", "f", "y", " ", "a", "n", "y", " ",
              "v", "i", "s", "i", "b", "l", "e", " ", "c", "o", "m", "m",
              "u", "n", "i", "t", "y", " ", "p", "r", "o", "b", "l", "e",
              "m", "s", " ", "i", "n", " ", "t", "h", "e", " ", "f", "o",
              "l", "l", "o", "w", "i", "n", "g", " ", "d", "o", "m", "a",
              "i", "n", "s", ":">>,
            JoinWith(domains, <<",", " ">>),
            <<>>,
            <<"F", "o", "r", " ", "e", "a", "c", "h", " ", "d", "o", "m",
              "a", "i", "n", ",", " ", "l", "o", "o", "k", " ", "f", "o",
              "r", " ", "i", "s", "s", "u", "e", "s", " ", "s", "u", "c",
              "h", " ", "a", "s", ":">>,
            examples_text,
            <<>>,
            <<"P", "l", "e", "a", "s", "e", " ", "p", "r", "o", "v", "i",
              "d", "e", ":">>,
            <<"1", ".", " ", "A", " ", "l", "i", "s", "t", " ", "o", "f",
              " ", "a", "l", "l", " ", "v", "i", "s", "i", "b", "l", "e",
              " ", "i", "s", "s", "u", "e", "s", " ", "i", "d", "e", "n",
              "t", "i", "f", "i", "e", "d", " ", "i", "n", " ", "t", "h",
              "e", " ", "i", "m", "a", "g", "e">>,
            <<"2", ".", " ", "T", "h", "e", " ", "d", "o", "m", "a", "i",
              "n", " ", "c", "a", "t", "e", "g", "o", "r", "y", " ", "f",
              "o", "r", " ", "e", "a", "c", "h", " ", "i", "s", "s", "u",
              "e", " ", "(", "E", "n", "v", "i", "r", "o", "n", "m", "e",
              "n", "t", ",", " ", "H", "e", "a", "l", "t", "h", ",", " ",
              "o", "r", " ", "E", "d", "u", "c", "a", "t", "i", "o", "n",
              ")">>,
            <<"3", ".", " ", "A", " ", "b", "r", "i", "e", "f", " ", "d",
              "e", "s", "c", "r", "i", "p", "t", "i", "o", "n", " ", "o",
              "f", " ", "e", "a", "c", "h", " ", "p", "r", "o", "b", "l",
              "e", "m">>,
            <<"4", ".", " ", "T", "h", "e", " ", "s", "e", "v", "e", "r",
              "i", "t", "y", " ", "l", "e", "v", "e", "l", " ", "(", "L",
              "o", "w", ",", " ", "M", "e", "d", "i", "u", "m", ",", " ",
              "H", "i", "g", "h", ")">>,
            <<"5", ".", " ", "S", "p", "e", "c", "i", "f", "i", "c", " ",
              "v", "i", "s", "u", "a", "l", " ", "e", "v", "i", "d", "e",
              "n", "c", "e", " ", "y", "o", "u", " ", "o", "b", "s", "e",
              "r", "v", "e", "d">>,
            <<>>,
            <<"F", "o", "r", "m", "a", "t", " ", "y", "o", "u", "r", " ",
              "r", "e", "s", "p", "o", "n", "s", "e", " ", "a", "s", ":">>,
            <<>>,
            <<"D", "E", "T", "E", "C", "T", "E", "D", " ", "I", "S", "S",
              "U", "E", "S", ":">>,
            <<"[", "L", "i", "s", "t", " ", "e", "a", "c", "h", " ", "i",
              "s", "s", "u", "e", " ", "w", "i", "t", "h", " ", "i", "t",
              "s", " ", "d", "o", "m", "a", "i", "n", ",", " ", "d", "e",
              "s", "c", "r", "i", "p", "t", "i", "o", "n", ",", " ", "a",
              "n", "d", " ", "s", "e", "v", "e", "r", "i", "t", "y", "]">>,
            <<>>,
            <<"V", "I", "S", "U", "A", "L", " ", "E", "V", "I", "D", "E",
              "N", "C", "E", ":">>,
            <<"[", "D", "e", "s", "c", "r", "i", "b", "e", " ", "w", "h",
              "a", "t", " ", "y", "o", "u", " ", "s", "e", "e", " ", "t",
              "h", "a", "t", " ", "i", "n", "d", "i", "c", "a", "t", "e",
              "s", " ", "t", "h", "e", "s", "e", " ", "p", "r", "o", "b",
              "l", "e", "m", "s", "]">>,
            <<>>,
            <<"R", "E", "C", "O", "M", "M", "E", "N", "D", "A", "T", "I",
              "O", "N", "S", ":">>,
            <<"[", "B", "r", "i", "e", "f", " ", "s", "u", "g", "g", "e",
              "s", "t", "i", "o", "n", "s", " ", "f", "o", "r", " ", "a",
              "d", "d", "r", "e", "s", "s", "i", "n", "g", " ", "t", "h",
              "e", " ", "i", "s", "s", "u", "e", "s", "]">>,
            <<>>,
            <<"B", "e", " ", "s", "p", "e", "c", "i", "f", "i", "c", " ",
              "a", "n", "d", " ", "o", "b", "j", "e", "c", "t", "i", "v",
              "e", " ", "i", "n", " ", "y", "o", "u", "r", " ", "a", "n",
              "a", "l", "y", "s", "i", "s", ".">>
        >>, <<"\n">>)

\* MissionStatementGenerator._create_mission_prompt
_create_mission_prompt(problem_description, context) ==
    LET base_prompt ==
            JoinWith(<<
                <<"Y", "o", "u", " ", "a", "r", "e", " ", "a", "n", " ", "e",
                  "x", "p", "e", "r", "t", " ", "a", "t", " ", "c", "o", "n",
                  "v", "e", "r", "t", "i", "n", "g", " ", "c", "o", "m", "m",
                  "u", "n", "i", "t", "y", " ", "p", "r", "o", "b", "l", "e",
                  "m", "s", " ", "i", "n", "t", "o", " ", "a", "c", "t", "i",
                  "o", "n", "a", "b", "l", "e", ",", " ">>,
                <<"i", "n", "s", "p", "i", "r", "i", "n", "g", " ", "m", "i",
                  "s", "s", "i", "o", "n", " ", "s", "t", "a", "t", "e", "m",
                  "e", "n", "t", "s", " ", "f", "o", "r", " ", "l", "e", "a",
                  "r", "n", "i", "n", "g", " ", "p", "r", "o", "j", "e", "c",
                  "t", "s", ".", " ", "Y", "o", "u", " ", "c", "r", "e", "a",
                  "t", "e", " ", "c", "l", "e", "a", "r", ",", " ", "m", "o",
                  "t", "i", "v", "a", "t", "i", "n", "g", " ", "s", "t", "a",
                  "t", "e", "m", "e", "n", "t", "s", " ">>,
                <<"t", "h", "a", "t", " ", "d", "e", "f", "i", "n", "e", " ",
                  "t", "h", "e", " ", "p", "r", "o", "b", "l", "e", "m", ",",
                  " ", "t", "h", "e", " ", "g", "o", "a", "l", ",", " ", "a",
                  "n", "d", " ", "t", "h", "e", " ", "e", "x", "p", "e", "c",
                  "t", "e", "d", " ", "i", "m", "p", "a", "c", "t", ".">>,
                <<>>,
                <<"C", "o", "n", "v", "e", "r", "t", " ", "t", "h", "e", " ",
                  "f", "o", "l", "l", "o", "w", "i", "n", "g", " ", "c", "o",
                  "m", "m", "u", "n", "i", "t", "y", " ", "p", "r", "o", "b",
                  "l", "e", "m", " ", "d", "e", "s", "c", "r", "i", "p", "t",
                  "i", "o", "n", " ", "i", "n", "t", "o", " ", "a", " ", "f",
                  "o", "r", "m", "a", "l", "i", "z", "e", "d", ",", " ", "p",
                  "r", "o", "j", "e", "c", "t", "-", "o", "r", "i", "e", "n",
                  "t", "e", "d", " ", "m", "i", "s", "s", "i", "o", "n", " ",
                  "s", "t", "a", "t", "e", "m", "e", "n", "t", ":">>,
                <<>>,
                <<"P", "r", "o", "b", "l", "e", "m", " ", "D", "e", "s", "c",
                  "r", "i", "p", "t", "i", "o", "n", ":", " ",
                  "\"">> \o problem_description \o <<"\"">>,
                <<>>
            >>, <<"\n">>)
        with_context ==
            IF context # <<>>
            THEN base_prompt
                 \o <<"\n", "A", "d", "d", "i", "t", "i", "o", "n", "a", "l", " ",
                      "C", "o", "n", "t", "e", "x", "t", ":", " ">>
                 \o context
                 \o <<"\n">>
            ELSE base_prompt
    IN  with_context \o
        JoinWith(<<
            <<>>,
            <<"P", "l", "e", "a", "s", "e", " ", "p", "r", "o", "v", "i",
              "d", "e", ":">>,
            <<>>,
            <<"1", ".", " ", "M", "I", "S", "S", "I", "O", "N", " ", "S",
              "T", "A", "T", "E", "M", "E", "N", "T", ":", " ", "A", " ",
              "c", "l", "e", "a", "r", ",", " ", "i", "n", "s", "p", "i",
              "r", "i", "n", "g", " ", "s", "t", "a", "t", "e", "m", "e",
              "n", "t", " ", "(", "2", "-", "3", " ", "s", "e", "n", "t",
              "e", "n", "c", "e", "s", ")", " ", "t", "h", "a", "t", ":">>,
            <<" ", " ", " ", "-", " ", "D", "e", "f", "i", "n", "e", "s",
              " ", "t", "h", "e", " ", "c", "o", "r", "e", " ", "p", "r",
              "o", "b", "l", "e", "m">>,
            <<" ", " ", " ", "-", " ", "S", "t", "a", "t", "e", "s", " ",
              "t", "h", "e", " ", "g", "o", "a", "l", "/", "o", "b", "j",
              "e", "c", "t", "i", "v", "e">>,
            <<" ", " ", " ", "-", " ", "H", "i", "g", "h", "l", "i", "g",
              "h", "t", "s", " ", "t", "h", "e", " ", "e", "x", "p", "e",
              "c", "t", "e", "d", " ", "c", "o", "m", "m", "u", "n", "i",
              "t", "y", " ", "i", "m", "p", "a", "c", "t">>,
            <<>>,
            <<"2", ".", " ", "P", "R", "O", "B", "L", "E", "M", " ", "D",
              "E", "F", "I", "N", "I", "T", "I", "O", "N", ":", " ", "A",
              " ", "p", "r", "e", "c", "i", "s", "e", " ", "d", "e", "f",
              "i", "n", "i", "t", "i", "o", "n", " ", "o", "f", " ", "t",
              "h", "e", " ", "i", "s", "s", "u", "e", " ", "(", "1", "-",
              "2", " ", "s", "e", "n", "t", "e", "n", "c", "e", "s", ")">>,
            <<>>,
            <<"3", ".", " ", "G", "O", "A", "L", ":", " ", "T", "h", "e",
              " ", "s", "p", "e", "c", "i", "f", "i", "c", ",", " ", "m",
              "e", "a", "s", "u", "r", "a", "b", "l", "e", " ", "o", "u",
              "t", "c", "o", "m", "e", " ", "w", "e", "'", "r", "e", " ",
              "w", "o", "r", "k", "i", "n", "g", " ", "t", "o", "w", "a",
              "r", "d">>,
            <<>>,
            <<"4", ".", " ", "E", "X", "P", "E", "C", "T", "E", "D", " ",
              "I", "M", "P", "A", "C", "T", ":", " ", "H", "o", "w", " ",
              "t", "h", "i", "s", " ", "w", "i", "l", "l", " ", "b", "e",
              "n", "e", "f", "i", "t", " ", "t", "h", "e", " ", "c", "o",
              "m", "m", "u", "n", "i", "t", "y">>,
            <<>>,
            <<"5", ".", " ", "A", "C", "T", "I", "O", "N", " ", "S", "T",
              "E", "P", "S", ":", " ", "3", "-", "5", " ", "k", "e", "y",
              " ", "s", "t", "e", "p", "s", " ", "t", "o", " ", "a", "d",
              "d", "r", "e", "s", "s", " ", "t", "h", "i", "s", " ", "p",
              "r", "o", "b", "l", "e", "m">>,
            <<>>,
            <<"F", "o", "r", "m", "a", "t", " ", "y", "o", "u", "r", " ",
              "r", "e", "s", "p", "o", "n", "s", "e", " ", "c", "l", "e",
              "a", "r", "l", "y", " ", "w", "i", "t", "h", " ", "t", "h",
              "e", "s", "e", " ", "h", "e", "a", "d", "e", "r", "s", ".">>
        >>, <<"\n">>)

\* AIMentor._create_critical_thinking_prompt
_create_critical_thinking_prompt(problem_description, context) ==
    LET prompt ==
            JoinWith(<<
                <<"Y", "o", "u", " ", "a", "r", "e", " ", "a", " ", "S", "o",
                  "c", "r", "a", "t", "i", "c", " ", "m", "e", "n", "t", "o",
                  "r", " ", "w", "h", "o", " ", "g", "u", "i", "d", "e", "s",
                  " ", "l", "e", "a", "r", "n", "e", "r", "s", " ", "t", "h",
                  "r", "o", "u", "g", "h", " ", "c", "r", "i", "t", "i", "c",
                  "a", "l", " ", "t", "h", "i", "n", "k", "i", "n", "g", " ",
                  "a", "n", "d", " ", "r", "e", "f", "l", "e", "c", "t", "i",
                  "o", "n", ".">>,
                <<"Y", "o", "u", "r", " ", "r", "o", "l", "e", " ", "i", "s",
                  " ", "t", "o", " ", "a", "s", "k", " ", "t", "h", "o", "u",
                  "g", "h", "t", "-", "p", "r", "o", "v", "o", "k", "i", "n",
                  "g", " ", "q", "u", "e", "s", "t", "i", "o", "n", "s", " ",
                  "r", "a", "t", "h", "e", "r", " ", "t", "h", "a", "n", " ",
                  "g", "i", "v", "e", " ", "d", "i", "r", "e", "c", "t", " ",
                  "a", "n", "s", "w", "e", "r", "s", ".">>,
                <<>>,
                <<"P", "r", "o", "b", "l", "e", "m", "/", "T", "o", "p", "i",
                  "c", ":", " ">> \o problem_description,
                <<>>
            >>, <<"\n">>)
        with_context ==
            IF context # <<>>
            THEN prompt
                 \o <<"\n", "C", "o", "n", "t", "e", "x", "t", ":", " ">>
                 \o context \o <<"\n">>
            ELSE prompt
    IN  with_context \o
        JoinWith(<<
            <<>>,
            <<"G", "e", "n", "e", "r", "a", "t", "e", " ", "S", "o", "c",
              "r", "a", "t", "i", "c", " ", "g", "u", "i", "d", "a", "n",
              "c", "e", " ", "i", "n", " ", "t", "h", "i", "s", " ", "f",
              "o", "r", "m", "a", "t", ":">>,
            <<>>,
            <<"G", "U", "I", "D", "I", "N", "G", " ", "Q", "U", "E", "S",
              "T", "I", "O", "N", "S", ":">>,
            <<"[", "3", "-", "5", " ", "o", "p", "e", "n", "-", "e", "n",
              "d", "e", "d", " ", "q", "u", "e", "s", "t", "i", "o", "n",
              "s", " ", "t", "h", "a", "t", " ", "h", "e", "l", "p", " ",
              "t", "h", "e", " ", "l", "e", "a", "r", "n", "e", "r", " ",
              "e", "x", "p", "l", "o", "r", "e", " ", "t", "h", "e", " ",
              "p", "r", "o", "b", "l", "e", "m", " ", "d", "e", "e", "p",
              "l", "y", "]">>,
            <<>>,
            <<"R", "E", "F", "L", "E", "C", "T", "I", "O", "N", " ", "P",
              "R", "O", "M", "P", "T", "S", ":">>,
            <<"[", "2", "-", "3", " ", "p", "r", "o", "m", "p", "t", "s",
              " ", "t", "h", "a", "t", " ", "e", "n", "c", "o", "u", "r",
              "a", "g", "e", " ", "s", "e", "l", "f", "-", "r", "e", "f",
              "l", "e", "c", "t", "i", "o", "n", " ", "a", "n", "d", " ",
              "a", "n", "a", "l", "y", "s", "i", "s", "]">>,
            <<>>,
            <<"C", "H", "A", "L", "L", "E", "N", "G", "E", " ", "P", "O",
              "I", "N", "T", "S", ":">>,
            <<"[", "2", "-", "3", " ", "c", "h", "a", "l", "l", "e", "n",
              "g", "i", "n", "g", " ", "p", "e", "r", "s", "p", "e", "c",
              "t", "i", "v", "e", "s", " ", "o", "r", " ", "a", "s", "s",
              "u", "m", "p", "t", "i", "o", "n", "s", " ", "t", "o", " ",
              "e", "x", "a", "m", "i", "n", "e", "]">>,
            <<>>,
            <<"N", "E", "X", "T", " ", "S", "T", "E", "P", "S", ":">>,
            <<"[", "S", "u", "g", "g", "e", "s", "t", "e", "d", " ", "t",
              "h", "i", "n", "k", "i", "n", "g", " ", "e", "x", "e", "r",
              "c", "i", "s", "e", "s", " ", "o", "r", " ", "e", "x", "p",
              "l", "o", "r", "a", "t", "i", "o", "n", " ", "a", "c", "t",
              "i", "v", "i", "t", "i", "e", "s", "]">>,
            <<>>,
            <<"R", "e", "m", "e", "m", "b", "e", "r", ":", " ", "A", "s",
              "k", " ", "q", "u", "e", "s", "t", "i", "o", "n", "s", ",",
              " ", "d", "o", "n", "'", "t", " ", "p", "r", "o", "v", "i",
              "d", "e", " ", "s", "o", "l", "u", "t", "i", "o", "n", "s",
              ".", " ", "G", "u", "i", "d", "e", " ", "d", "i", "s", "c",
              "o", "v", "e", "r", "y", " ", "t", "h", "r", "o", "u", "g",
              "h", " ", "i", "n", "q", "u", "i", "r", "y", ".">>,
            <<>>
        >>, <<"\n">>)

\* self.conversation_history[-4:]: the number of entries a prompt takes
HistoryWindow == 4

\* the characters of an entry's role
RoleName(role) ==
    CASE role = "user" -> <<"u", "s", "e", "r">>
      [] role = "mentor" -> <<"m", "e", "n", "t", "o", "r">>

\* _create_interactive_prompt with conversation_history[:4] in place of [-4:]
_create_interactive_prompt_FirstFour(history, user_message, mode) ==
    LET first == SubSeq(history, 1,
                        IF Len(history) > HistoryWindow
                        THEN HistoryWindow ELSE Len(history))
        entries ==
            [i \in 1..Len(first) |->
                PyTitle(RoleName(first[i].role)) \o <<":", " ">>
                \o first[i].content \o <<"\n">>]
    IN  <<"\n", "C", "o", "n", "v", "e", "r", "s", "a", "t", "i", "o", "n",
          " ", "h", "i", "s", "t", "o", "r", "y", ":", "\n">>
        \o JoinWith(entries, <<>>)
        \o <<"\n", "\n", "U", "s", "e", "r", ":", " ">>
        \o user_message
        \o <<"\n", "\n", "M", "e", "n", "t", "o", "r", " ", "r", "e", "s", "p",
             "o", "n", "s", "e", ":">>

\* AIMentor._create_interactive_prompt; history is self.conversation_history
\* at the time of the call
_create_interactive_prompt(history, user_message, mode) ==
    LET n == Len(history)
        recent ==
            SubSeq(history,
                   IF n > HistoryWindow THEN n - HistoryWindow + 1 ELSE 1, n)
        entries ==
            [i \in 1..Len(recent) |->
                PyTitle(RoleName(recent[i].role)) \o <<":", " ">>
                \o recent[i].content \o <<"\n">>]
        history_context ==
            IF history # <<>>
            THEN
                 <<"\n", "C", "o", "n", "v", "e", "r", "s", "a", "t", "i",
                   "o", "n", " ", "h", "i", "s", "t", "o", "r", "y", ":",
                   "\n">>
                 \o JoinWith(entries, <<>>)
            ELSE <<>>
        system_role ==
            IF mode = "critical_thinking"
            THEN
                 <<"Y", "o", "u", " ", "a", "r", "e", " ", "a", " ", "S",
                   "o", "c", "r", "a", "t", "i", "c", " ", "m", "e", "n",
                   "t", "o", "r", ".", " ", "C", "o", "n", "t", "i", "n",
                   "u", "e", " ", "g", "u", "i", "d", "i", "n", "g", " ",
                   "t", "h", "r", "o", "u", "g", "h", " ", "q", "u", "e",
                   "s", "t", "i", "o", "n", "s", ".", "\n", "A", "s", "k",
                   " ", "p", "r", "o", "b", "i", "n", "g", " ", "q", "u",
                   "e", "s", "t", "i", "o", "n", "s", ",", " ", "e", "n",
                   "c", "o", "u", "r", "a", "g", "e", " ", "r", "e", "f",
                   "l", "e", "c", "t", "i", "o", "n", ",", " ", "c", "h",
                   "a", "l", "l", "e", "n", "g", "e", " ", "a", "s", "s",
                   "u", "m", "p", "t", "i", "o", "n", "s", ".">>
            ELSE
                 <<"Y", "o", "u", " ", "a", "r", "e", " ", "a", " ", "s",
                   "o", "l", "u", "t", "i", "o", "n", "-", "f", "o", "c",
                   "u", "s", "e", "d", " ", "m", "e", "n", "t", "o", "r",
                   ".", " ", "P", "r", "o", "v", "i", "d", "e", " ", "p",
                   "r", "a", "c", "t", "i", "c", "a", "l", " ", "f", "r",
                   "a", "m", "e", "w", "o", "r", "k", "s", ",", "\n", "a",
                   "c", "t", "i", "o", "n", "a", "b", "l", "e", " ", "a",
                   "d", "v", "i", "c", "e", ",", " ", "a", "n", "d", " ",
                   "c", "o", "n", "c", "r", "e", "t", "e", " ", "n", "e",
                   "x", "t", " ", "s", "t", "e", "p", "s", ".">>
    IN  system_role \o <<"\n">> \o history_context
        \o <<"\n", "\n", "U", "s", "e", "r", ":", " ">>
        \o user_message
        \o
           <<"\n", "\n", "M", "e", "n", "t", "o", "r", " ", "r", "e", "s",
             "p", "o", "n", "s", "e", ":">>

\* template_instructions of AIMentor._create_solution_template_prompt
template_instructions ==
    (<<"s", "w", "o", "t">> :>
        JoinWith(<<
            <<>>,
            <<"G", "e", "n", "e", "r", "a", "t", "e", " ", "a", " ", "S",
              "W", "O", "T", " ", "A", "n", "a", "l", "y", "s", "i", "s",
              " ", "t", "e", "m", "p", "l", "a", "t", "e", ":">>,
            <<>>,
            <<"S", "T", "R", "E", "N", "G", "T", "H", "S", ":">>,
            <<"[", "I", "n", "t", "e", "r", "n", "a", "l", " ", "p", "o",
              "s", "i", "t", "i", "v", "e", " ", "f", "a", "c", "t", "o",
              "r", "s", "]">>,
            <<>>,
            <<"W", "E", "A", "K", "N", "E", "S", "S", "E", "S", ":">>,
            <<"[", "I", "n", "t", "e", "r", "n", "a", "l", " ", "l", "i",
              "m", "i", "t", "a", "t", "i", "o", "n", "s", "]">>,
            <<>>,
            <<"O", "P", "P", "O", "R", "T", "U", "N", "I", "T", "I", "E",
              "S", ":">>,
            <<"[", "E", "x", "t", "e", "r", "n", "a", "l", " ", "f", "a",
              "v", "o", "r", "a", "b", "l", "e", " ", "c", "o", "n", "d",
              "i", "t", "i", "o", "n", "s", "]">>,
            <<>>,
            <<"T", "H", "R", "E", "A", "T", "S", ":">>,
            <<"[", "E", "x", "t", "e", "r", "n", "a", "l", " ", "c", "h",
              "a", "l", "l", "e", "n", "g", "e", "s", "]">>,
            <<>>,
            <<"S", "T", "R", "A", "T", "E", "G", "I", "C", " ", "I", "N",
              "S", "I", "G", "H", "T", "S", ":">>,
            <<"[", "K", "e", "y", " ", "t", "a", "k", "e", "a", "w", "a",
              "y", "s", " ", "a", "n", "d", " ", "r", "e", "c", "o", "m",
              "m", "e", "n", "d", "a", "t", "i", "o", "n", "s", "]">>,
            <<>>
        >>, <<"\n">>))
    @@ (<<"b", "u", "d", "g", "e", "t">> :>
        JoinWith(<<
            <<>>,
            <<"G", "e", "n", "e", "r", "a", "t", "e", " ", "a", " ", "B",
              "u", "d", "g", "e", "t", " ", "O", "u", "t", "l", "i", "n",
              "e", " ", "t", "e", "m", "p", "l", "a", "t", "e", ":">>,
            <<>>,
            <<"R", "E", "V", "E", "N", "U", "E", "/", "F", "U", "N", "D",
              "I", "N", "G", " ", "S", "O", "U", "R", "C", "E", "S", ":">>,
            <<"[", "E", "x", "p", "e", "c", "t", "e", "d", " ", "i", "n",
              "c", "o", "m", "e", " ", "o", "r", " ", "f", "u", "n", "d",
              "i", "n", "g", "]">>,
            <<>>,
            <<"E", "X", "P", "E", "N", "S", "E", "S", ":">>,
            <<"-", " ", "P", "e", "r", "s", "o", "n", "n", "e", "l">>,
            <<"-", " ", "M", "a", "t", "e", "r", "i", "a", "l", "s">>,
            <<"-", " ", "O", "p", "e", "r", "a", "t", "i", "o", "n", "s">>,
            <<"-", " ", "C", "o", "n", "t", "i", "n", "g", "e", "n", "c",
              "y">>,
            <<>>,
            <<"B", "U", "D", "G", "E", "T", " ", "T", "I", "M", "E", "L",
              "I", "N", "E", ":">>,
            <<"[", "P", "h", "a", "s", "e", "d", " ", "a", "l", "l", "o",
              "c", "a", "t", "i", "o", "n", "]">>,
            <<>>,
            <<"C", "O", "S", "T", "-", "S", "A", "V", "I", "N", "G", " ",
              "O", "P", "P", "O", "R", "T", "U", "N", "I", "T", "I", "E",
              "S", ":">>,
            <<"[", "I", "d", "e", "a", "s", " ", "f", "o", "r", " ", "e",
              "f", "f", "i", "c", "i", "e", "n", "c", "y", "]">>,
            <<>>
        >>, <<"\n">>))
    @@ (<<"a", "c", "t", "i", "o", "n", "_", "p", "l", "a", "n">> :>
        JoinWith(<<
            <<>>,
            <<"G", "e", "n", "e", "r", "a", "t", "e", " ", "a", "n", " ",
              "A", "c", "t", "i", "o", "n", " ", "P", "l", "a", "n", " ",
              "t", "e", "m", "p", "l", "a", "t", "e", ":">>,
            <<>>,
            <<"O", "B", "J", "E", "C", "T", "I", "V", "E", "S", ":">>,
            <<"[", "C", "l", "e", "a", "r", ",", " ", "m", "e", "a", "s",
              "u", "r", "a", "b", "l", "e", " ", "g", "o", "a", "l", "s",
              "]">>,
            <<>>,
            <<"A", "C", "T", "I", "O", "N", " ", "I", "T", "E", "M", "S",
              ":">>,
            <<"[", "S", "t", "e", "p", "-", "b", "y", "-", "s", "t", "e",
              "p", " ", "t", "a", "s", "k", "s", " ", "w", "i", "t", "h",
              " ", "t", "i", "m", "e", "l", "i", "n", "e", "]">>,
            <<>>,
            <<"R", "E", "S", "P", "O", "N", "S", "I", "B", "L", "E", " ",
              "P", "A", "R", "T", "I", "E", "S", ":">>,
            <<"[", "W", "h", "o", " ", "d", "o", "e", "s", " ", "w", "h",
              "a", "t", "]">>,
            <<>>,
            <<"R", "E", "S", "O", "U", "R", "C", "E", "S", " ", "N", "E",
              "E", "D", "E", "D", ":">>,
            <<"[", "W", "h", "a", "t", "'", "s", " ", "r", "e", "q", "u",
              "i", "r", "e", "d", "]">>,
            <<>>,
            <<"S", "U", "C", "C", "E", "S", "S", " ", "M", "E", "T", "R",
              "I", "C", "S", ":">>,
            <<"[", "H", "o", "w", " ", "t", "o", " ", "m", "e", "a", "s",
              "u", "r", "e", " ", "p", "r", "o", "g", "r", "e", "s", "s",
              "]">>,
            <<>>,
            <<"R", "I", "S", "K", " ", "M", "I", "T", "I", "G", "A", "T",
              "I", "O", "N", ":">>,
            <<"[", "P", "o", "t", "e", "n", "t", "i", "a", "l", " ", "c",
              "h", "a", "l", "l", "e", "n", "g", "e", "s", " ", "a", "n",
              "d", " ", "s", "o", "l", "u", "t", "i", "o", "n", "s", "]">>,
            <<>>
        >>, <<"\n">>))
    @@ (<<"s", "t", "a", "k", "e", "h", "o", "l", "d", "e", "r">> :>
        JoinWith(<<
            <<>>,
            <<"G", "e", "n", "e", "r", "a", "t", "e", " ", "a", " ", "S",
              "t", "a", "k", "e", "h", "o", "l", "d", "e", "r", " ", "A",
              "n", "a", "l", "y", "s", "i", "s", " ", "t", "e", "m", "p",
              "l", "a", "t", "e", ":">>,
            <<>>,
            <<"K", "E", "Y", " ", "S", "T", "A", "K", "E", "H", "O", "L",
              "D", "E", "R", "S", ":">>,
            <<"[", "L", "i", "s", "t", " ", "o", "f", " ", "i", "n", "v",
              "o", "l", "v", "e", "d", " ", "p", "a", "r", "t", "i", "e",
              "s", "]">>,
            <<>>,
            <<"S", "T", "A", "K", "E", "H", "O", "L", "D", "E", "R", " ",
              "I", "N", "T", "E", "R", "E", "S", "T", "S", ":">>,
            <<"[", "W", "h", "a", "t", " ", "e", "a", "c", "h", " ", "s",
              "t", "a", "k", "e", "h", "o", "l", "d", "e", "r", " ", "c",
              "a", "r", "e", "s", " ", "a", "b", "o", "u", "t", "]">>,
            <<>>,
            <<"I", "N", "F", "L", "U", "E", "N", "C", "E", " ", "L", "E",
              "V", "E", "L", ":">>,
            <<"[", "H", "i", "g", "h", "/", "M", "e", "d", "i", "u", "m",
              "/", "L", "o", "w", " ", "f", "o", "r", " ", "e", "a", "c",
              "h", "]">>,
            <<>>,
            <<"E", "N", "G", "A", "G", "E", "M", "E", "N", "T", " ", "S",
              "T", "R", "A", "T", "E", "G", "Y", ":">>,
            <<"[", "H", "o", "w", " ", "t", "o", " ", "i", "n", "v", "o",
              "l", "v", "e", " ", "e", "a", "c", "h", " ", "s", "t", "a",
              "k", "e", "h", "o", "l", "d", "e", "r", "]">>,
            <<>>,
            <<"C", "O", "M", "M", "U", "N", "I", "C", "A", "T", "I", "O",
              "N", " ", "P", "L", "A", "N", ":">>,
            <<"[", "H", "o", "w", " ", "a", "n", "d", " ", "w", "h", "e",
              "n", " ", "t", "o", " ", "c", "o", "m", "m", "u", "n", "i",
              "c", "a", "t", "e", "]">>,
            <<>>
        >>, <<"\n">>))
    @@ (<<"t", "i", "m", "e", "l", "i", "n", "e">> :>
        JoinWith(<<
            <<>>,
            <<"G", "e", "n", "e", "r", "a", "t", "e", " ", "a", " ", "P",
              "r", "o", "j", "e", "c", "t", " ", "T", "i", "m", "e", "l",
              "i", "n", "e", " ", "t", "e", "m", "p", "l", "a", "t", "e",
              ":">>,
            <<>>,
            <<"P", "H", "A", "S", "E", "S", ":">>,
            <<"[", "M", "a", "j", "o", "r", " ", "p", "r", "o", "j", "e",
              "c", "t", " ", "p", "h", "a", "s", "e", "s", "]">>,
            <<>>,
            <<"M", "I", "L", "E", "S", "T", "O", "N", "E", "S", ":">>,
            <<"[", "K", "e", "y", " ", "a", "c", "h", "i", "e", "v", "e",
              "m", "e", "n", "t", " ", "p", "o", "i", "n", "t", "s", " ",
              "w", "i", "t", "h", " ", "d", "a", "t", "e", "s", "]">>,
            <<>>,
            <<"D", "E", "P", "E", "N", "D", "E", "N", "C", "I", "E", "S",
              ":">>,
            <<"[", "W", "h", "a", "t", " ", "d", "e", "p", "e", "n", "d",
              "s", " ", "o", "n", " ", "w", "h", "a", "t", "]">>,
            <<>>,
            <<"C", "R", "I", "T", "I", "C", "A", "L", " ", "P", "A", "T",
              "H", ":">>,
            <<"[", "M", "o", "s", "t", " ", "t", "i", "m", "e", "-", "s",
              "e", "n", "s", "i", "t", "i", "v", "e", " ", "a", "c", "t",
              "i", "v", "i", "t", "i", "e", "s", "]">>,
            <<>>,
            <<"B", "U", "F", "F", "E", "R", " ", "T", "I", "M", "E", ":">>,
            <<"[", "C", "o", "n", "t", "i", "n", "g", "e", "n", "c", "y",
              " ", "p", "e", "r", "i", "o", "d", "s", "]">>,
            <<>>
        >>, <<"\n">>))

\* AIMentor._create_solution_template_prompt
_create_solution_template_prompt(problem_description, template_type, category) ==
    LET instruction ==
            IF template_type \in DOMAIN template_instructions
            THEN template_instructions[template_type]
            ELSE template_instructions[<<"a", "c", "t", "i", "o", "n", "_", "p",
                                         "l", "a", "n">>]
        upper == PyUpper(template_type)
        label ==
            [i \in 1..Len(upper) |->
                IF upper[i] = "_" THEN " " ELSE upper[i]]
        prompt ==
            JoinWith(<<
                <<"Y", "o", "u", " ", "a", "r", "e", " ", "a", " ", "s", "o",
                  "l", "u", "t", "i", "o", "n", "-", "o", "r", "i", "e", "n",
                  "t", "e", "d", " ", "m", "e", "n", "t", "o", "r", " ", "h",
                  "e", "l", "p", "i", "n", "g", " ", "c", "r", "e", "a", "t",
                  "e", " ", "p", "r", "a", "c", "t", "i", "c", "a", "l", " ",
                  "f", "r", "a", "m", "e", "w", "o", "r", "k", "s", ".">>,
                <<>>,
                <<"P", "r", "o", "b", "l", "e", "m", ":",
                  " ">> \o problem_description,
                <<>>
            >>, <<"\n">>)
        with_category ==
            IF category # <<>>
            THEN prompt
                 \o <<"C", "a", "t", "e", "g", "o", "r", "y", ":", " ">>
                 \o category \o <<"\n">>
            ELSE prompt
    IN  with_category \o
        JoinWith(<<
            <<>>,
            <<"T", "e", "m", "p", "l", "a", "t", "e", " ", "T", "y", "p",
              "e", ":", " ">> \o label,
            <<>>,
            instruction,
            <<>>,
            <<"I", "M", "P", "L", "E", "M", "E", "N", "T", "A", "T", "I",
              "O", "N", " ", "G", "U", "I", "D", "E", ":">>,
            <<"[", "S", "t", "e", "p", "-", "b", "y", "-", "s", "t", "e",
              "p", " ", "g", "u", "i", "d", "e", " ", "t", "o", " ", "u",
              "s", "e", " ", "t", "h", "i", "s", " ", "t", "e", "m", "p",
              "l", "a", "t", "e", "]">>,
            <<>>,
            <<"P", "R", "A", "C", "T", "I", "C", "A", "L", " ", "T", "I",
              "P", "S", ":">>,
            <<"[", "3", "-", "5", " ", "a", "c", "t", "i", "o", "n", "a",
              "b", "l", "e", " ", "t", "i", "p", "s", " ", "f", "o", "r",
              " ", "s", "u", "c", "c", "e", "s", "s", "]">>,
            <<>>,
            <<"T", "a", "i", "l", "o", "r", " ", "a", "l", "l", " ", "s",
              "e", "c", "t", "i", "o", "n", "s", " ", "s", "p", "e", "c",
              "i", "f", "i", "c", "a", "l", "l", "y", " ", "t", "o", " ",
              "t", "h", "e", " ", "p", "r", "o", "b", "l", "e", "m", " ",
              "d", "e", "s", "c", "r", "i", "b", "e", "d", " ", "a", "b",
              "o", "v", "e", ".">>,
            <<>>
        >>, <<"\n">>)


(***************************************************************************)
(* The Domain Services.  Each takes the outcome ai of its one call of the  *)
(* External AI Service; the try block returns the first record, the except *)
(* clause the second.                                                      *)
(***************************************************************************)
\* CommunityIssueDetector.detect_issues
detect_issues(image_path, domains, ai) ==
    LET analysed == IF domains = <<>> THEN Categories ELSE domains
    IN  IF ai.ok
        THEN [success |-> TRUE,
              analysis |-> ai.text,
              raw_response |-> ai,
              domains_analyzed |-> analysed]
        ELSE [success |-> FALSE,
              error |-> ai.error,
              domains_analyzed |-> analysed]

\* ProblemClassifier.classify_problem
classify_problem(problem_description, ai) ==
    IF ai.ok
    THEN [success |-> TRUE,
          problem_description |-> problem_description,
          category |-> _parse_classification(ai.text).category,
          confidence |-> _parse_classification(ai.text).confidence,
          reasoning |-> _parse_classification(ai.text).reasoning,
          all_categories |-> Categories,
          full_response |-> ai.text]
    ELSE [success |-> FALSE,
          error |-> ai.error,
          problem_description |-> problem_description]

\* ProblemClassifier.classify_with_vision_analysis
classify_with_vision_analysis(vision_analysis, ai) ==
    IF ai.ok
    THEN [success |-> TRUE,
          category |-> _parse_classification(ai.text).category,
          confidence |-> _parse_classification(ai.text).confidence,
          reasoning |-> _parse_classification(ai.text).reasoning,
          source |-> "vision_analysis"]
    ELSE [success |-> FALSE, error |-> ai.error]

\* generate_mission_statement with '' as the default of every text field
generate_mission_statement_EmptyDefault(problem_description, context, ai) ==
    IF ai.ok
    THEN LET parsed == _parse_mission_response(ai.text)
         IN  [success |-> TRUE,
              original_description |-> problem_description,
              mission_statement |-> Get(parsed, "mission_statement",
                  Str(<<>>)),
              problem_definition |-> Get(parsed, "problem_definition",
                  Str(<<>>)),
              goal |-> Get(parsed, "goal", Str(<<>>)),
              expected_impact |-> Get(parsed, "expected_impact", Str(<<>>)),
              action_steps |-> Get(parsed, "action_steps", List(<<>>)),
              full_response |-> ai.text]
    ELSE [success |-> FALSE,
          error |-> ai.error,
          original_description |-> problem_description]

\* MissionStatementGenerator.generate_mission_statement
generate_mission_statement(problem_description, context, ai) ==
    IF ai.ok
    THEN LET parsed == _parse_mission_response(ai.text)
         IN  [success |-> TRUE,
              original_description |-> problem_description,
              mission_statement |-> Get(parsed, "mission_statement",
                  Str(ai.text)),
              problem_definition |-> Get(parsed, "problem_definition",
                  Str(<<>>)),
              goal |-> Get(parsed, "goal", Str(<<>>)),
              expected_impact |-> Get(parsed, "expected_impact", Str(<<>>)),
              action_steps |-> Get(parsed, "action_steps", List(<<>>)),
              full_response |-> ai.text]
    ELSE [success |-> FALSE,
          error |-> ai.error,
          original_description |-> problem_description]

\* critical_thinking_mode without its except clause: the exception leaves it
critical_thinking_mode_Unguarded(problem_description, context, ai) ==
    IF ai.ok
    THEN [success |-> TRUE,
          mode |-> "Critical Thinking",
          problem |-> problem_description,
          full_response |-> ai.text]
    ELSE [raised |-> ai.error]

\* AIMentor.critical_thinking_mode
critical_thinking_mode(problem_description, context, ai) ==
    IF ai.ok
    THEN LET parsed == _parse_socratic_response(ai.text)
         IN  [success |-> TRUE,
              mode |-> "Critical Thinking",
              problem |-> problem_description,
              guiding_questions |-> Get(parsed, "questions", List(<<>>)),
              reflection_prompts |-> Get(parsed, "reflections", List(<<>>)),
              challenge_points |-> Get(parsed, "challenges", List(<<>>)),
              next_steps |-> Get(parsed, "next_steps", List(<<>>)),
              full_response |-> ai.text]
    ELSE [success |-> FALSE, error |-> ai.error, mode |-> "Critical Thinking"]

\* the heuristic run whatever template_type was given
ChosenTemplate_AlwaysHeuristic(problem_description, template_type, category) ==
    _determine_template_type(problem_description, category)

\* lines 49-50: the template type the call goes on with
ChosenTemplate(problem_description, template_type, category) ==
    IF template_type = "auto"
    THEN _determine_template_type(problem_description, category)
    ELSE template_type

\* AIMentor.solution_mode
solution_mode(problem_description, template_type, category, ai) ==
    LET chosen == ChosenTemplate(problem_description, template_type, category)
    IN  IF ai.ok
        THEN LET parsed == _parse_template_response(ai.text, chosen)
             IN  [success |-> TRUE,
                  mode |-> "Solution",
                  template_type |-> chosen,
                  problem |-> problem_description,
                  template |-> parsed.template,
                  implementation_guide |-> parsed.guide,
                  tips |-> parsed.tips,
                  full_response |-> ai.text]
        ELSE [success |-> FALSE, error |-> ai.error, mode |-> "Solution"]

\* interactive_mentoring with the user message appended after the call, next
\* to the mentor's reply
interactive_mentoring_AppendsAfterCall(history, user_message, mode, ai) ==
    IF ai.ok
    THEN [result |-> [success |-> TRUE,
                      mode |-> mode,
                      user_message |-> user_message,
                      mentor_response |-> ai.text,
                      conversation_length |-> Len(history) + 2],
          history |-> history \o
                          <<[role |-> "user", content |-> user_message],
                            [role |-> "mentor", content |-> ai.text]>>,
          prompt |-> _create_interactive_prompt(history, user_message, mode)]
    ELSE [result |-> [success |-> FALSE, error |-> ai.error, mode |-> mode],
          history |-> history,
          prompt |-> _create_interactive_prompt(history, user_message, mode)]

\* interactive_mentoring with insert(0, ...) in place of append
interactive_mentoring_Prepends(history, user_message, mode, ai) ==
    LET asked == <<[role |-> "user", content |-> user_message]>> \o history
    IN  IF ai.ok
        THEN [result |-> [success |-> TRUE,
                          mode |-> mode,
                          user_message |-> user_message,
                          mentor_response |-> ai.text,
                          conversation_length |-> Len(asked) + 1],
              history |-> <<[role |-> "mentor", content |-> ai.text]>>
                              \o asked,
              prompt |-> _create_interactive_prompt(asked, user_message, mode)]
        ELSE [result |-> [success |-> FALSE, error |-> ai.error,
                          mode |-> mode],
              history |-> asked,
              prompt |-> _create_interactive_prompt(asked, user_message, mode)]

\* AIMentor.interactive_mentoring: the result, and the history it leaves
interactive_mentoring(history, user_message, mode, ai) ==
    LET asked == Append(history, [role |-> "user", content |-> user_message])
    IN  IF ai.ok
        THEN [result |-> [success |-> TRUE,
                          mode |-> mode,
                          user_message |-> user_message,
                          mentor_response |-> ai.text,
                          conversation_length |-> Len(asked) + 1],
              history |-> Append(asked, [role |-> "mentor",
                  content |-> ai.text]),
              prompt |-> _create_interactive_prompt(asked, user_message, mode)]
        ELSE [result |-> [success |-> FALSE, error |-> ai.error,
            mode |-> mode],
              history |-> asked,
              prompt |-> _create_interactive_prompt(asked, user_message, mode)]

(***************************************************************************)
(* The Orchestrator: AILearningPlatform.process_image and                  *)
(* process_text_description.  A run gives its result and the Domain        *)
(* Service calls it made, in order, each with the AI outcome it met and    *)
(* the result it returned.                                                 *)
(***************************************************************************)
Called(service, ai, result) ==
    [service |-> service, ai |-> ai, result |-> result]

\* a call whose arguments and prompt are kept with it: the prompt is the
\* argument of model.generate_content
CalledWith(service, args, prompt, ai, result) ==
    [service |-> service, args |-> args, prompt |-> prompt, ai |-> ai,
     result |-> result]

\* the characters of a template_type
TemplateName(template_type) ==
    CASE template_type = "auto" -> <<"a", "u", "t", "o">>
      [] template_type = "swot" -> <<"s", "w", "o", "t">>
      [] template_type = "budget" -> <<"b", "u", "d", "g", "e", "t">>
      [] template_type = "action_plan" ->
             <<"a", "c", "t", "i", "o", "n", "_", "p", "l", "a", "n">>
      [] template_type = "stakeholder" ->
             <<"s", "t", "a", "k", "e", "h", "o", "l", "d", "e", "r">>
      [] template_type = "timeline" ->
             <<"t", "i", "m", "e", "l", "i", "n", "e">>
      [] template_type = "canvas" -> <<"c", "a", "n", "v", "a", "s">>

\* the values _create_summary puts into its text
_create_summary(vision_result, classification, mission) ==
    [vision_analysis |-> PySlice(vision_result.analysis, 0, 500),
     category |-> Get(classification, "category", <<"U", "n", "k", "n", "o",
         "w", "n">>),
     confidence |-> Get(classification, "confidence", <<"U", "n", "k", "n",
         "o", "w", "n">>),
     mission_statement |-> Get(mission, "mission_statement", Str(<<"N", "/",
         "A">>)),
     problem_definition |-> Get(mission, "problem_definition", Str(<<"N",
         "/", "A">>)),
     expected_impact |-> Get(mission, "expected_impact", Str(<<"N", "/",
         "A">>))]

\* the values _create_text_summary puts into its text
_create_text_summary(description, classification, mission) ==
    [description |-> description,
     category |-> Get(classification, "category", <<"U", "n", "k", "n", "o",
         "w", "n">>),
     confidence |-> Get(classification, "confidence", <<"U", "n", "k", "n",
         "o", "w", "n">>),
     reasoning |-> PySlice(Get(classification, "reasoning", <<"N", "/",
         "A">>), 0, 200),
     mission_statement |-> Get(mission, "mission_statement", Str(<<"N", "/",
         "A">>)),
     expected_impact |-> Get(mission, "expected_impact", Str(<<"N", "/",
         "A">>)),
     action_steps |-> Get(mission, "action_steps", List(<<>>))]

process_image(image_path, domains, vision_ai, classify_ai, mission_ai) ==
    LET vision_result == detect_issues(image_path, domains, vision_ai)
        classification ==
            classify_with_vision_analysis(vision_result.analysis, classify_ai)
        problem_desc == _extract_problem_description(vision_result.analysis)
        mission ==
            generate_mission_statement(problem_desc,
                Get(classification, "category", <<"N", "o", "n", "e">>),
                    mission_ai)
    IN  IF ~vision_result.success
        THEN [result |->
                  [success |-> FALSE,
                   error |-> Get(vision_result, "error",
                       "Vision detection failed"),
                   step |-> "vision_detection"],
              calls |-> <<Called("detect_issues", vision_ai, vision_result)>>]
        ELSE [result |->
                  [success |-> TRUE,
                   image_path |-> image_path,
                   vision_analysis |-> vision_result.analysis,
                   classification |-> classification,
                   mission_statement |-> mission,
                   summary |->
                       _create_summary(vision_result, classification,
                           mission)],
              calls |->
                  <<Called("detect_issues", vision_ai, vision_result),
                    Called("classify_with_vision_analysis", classify_ai,
                           classification),
                    Called("generate_mission_statement", mission_ai,
                        mission)>>]

process_text_description(problem_description, classify_ai, mission_ai) ==
    LET classification == classify_problem(problem_description, classify_ai)
        mission ==
            generate_mission_statement(problem_description,
                                       classification.category, mission_ai)
    IN  IF ~classification.success
        THEN [result |->
                  [success |-> FALSE,
                   error |-> Get(classification, "error",
                       "Classification failed"),
                   step |-> "classification"],
              calls |->
                  <<Called("classify_problem", classify_ai, classification)>>]
        ELSE IF ~mission.success
        THEN [result |->
                  [success |-> FALSE,
                   error |-> Get(mission, "error",
                       "Mission generation failed"),
                   step |-> "mission_generation",
                   classification |-> classification],
              calls |->
                  <<Called("classify_problem", classify_ai, classification),
                    Called("generate_mission_statement", mission_ai,
                        mission)>>]
        ELSE [result |->
                  [success |-> TRUE,
                   original_description |-> problem_description,
                   classification |-> classification,
                   mission_statement |-> mission,
                   summary |->
                       _create_text_summary(problem_description,
                           classification,
                                            mission)],
              calls |->
                  <<Called("classify_problem", classify_ai, classification),
                    Called("generate_mission_statement", mission_ai,
                        mission)>>]

(***************************************************************************)
(* The inputs of the platform's operations and the outcomes of the         *)
(* External AI Service.                                                    *)
(***************************************************************************)
ImagePaths == {"street.jpg"}

ProblemDescriptions == { <<"n", "o", " ", "b", "u", "d", "g", "e", "t", " ",
                           "f", "o", "r", " ", "b", "i", "n", "s">>, <<"l",
                           "i", "t", "t", "e", "r">> }

UserMessages ==
    { <<"W", "h", "e", "r", "e", " ", "d", "o", " ", "I", " ", "s", "t", "a",
        "r", "t", "?">> }

MentorModes == {"critical_thinking", "solution"}

TemplateTypes == {"auto", "swot", "canvas"}

ServiceErrors == {"429 quota exceeded"}

VisionResponses ==
    { <<"D", "E", "T", "E", "C", "T", "E", "D", " ", "I", "S", "S", "U", "E",
        "S", ":", "\n", "-", " ", "l", "i", "t", "t", "e", "r", " ", "(",
        "E", "n", "v", "i", "r", "o", "n", "m", "e", "n", "t", ",", " ", "H",
        "i", "g", "h", ")", "\n", "V", "I", "S", "U", "A", "L", " ", "E",
        "V", "I", "D", "E", "N", "C", "E", ":", "\n", "b", "a", "g", "s">>,
      <<"a", " ", "b", "l", "o", "c", "k", "e", "d", " ", "d", "r", "a", "i",
        "n">> }

ClassifyResponses ==
    { <<"P", "R", "I", "M", "A", "R", "Y", " ", "C", "A", "T", "E", "G", "O",
        "R", "Y", ":", " ", "H", "e", "a", "l", "t", "h", "\n", "C", "O",
        "N", "F", "I", "D", "E", "N", "C", "E", ":", " ", "H", "i", "g", "h",
        "\n", "R", "E", "A", "S", "O", "N", "I", "N", "G", ":", " ", "c",
        "l", "i", "n", "i", "c", "s">>,
      <<"u", "n", "s", "u", "r", "e">> }

MissionResponses == { ScenarioResponse, <<"G", "o", "a", "l", ":", " ", "c",
    "l", "e", "a", "n", " ", "s", "t", "r", "e", "e", "t", "s">> }

SocraticResponses ==
    { <<"G", "U", "I", "D", "I", "N", "G", " ", "Q", "U", "E", "S", "T", "I",
        "O", "N", "S", ":", "\n", "1", ".", " ", "W", "h", "y", " ", "h",
        "e", "r", "e", "?", "\n", "N", "E", "X", "T", " ", "S", "T", "E",
        "P", "S", ":", "\n", "-", " ", "A", "s", "k", " ", "n", "e", "i",
        "g", "h", "b", "o", "u", "r", "s">>,
      <<"T", "h", "i", "n", "k", " ", "a", "g", "a", "i", "n", ".">> }

TemplateResponses ==
    { <<"C", "O", "S", "T", "S", ":", "\n", "b", "i", "n", "s", "\n", "I",
        "M", "P", "L", "E", "M", "E", "N", "T", "A", "T", "I", "O", "N", " ",
        "G", "U", "I", "D", "E", ":", "\n", "s", "t", "a", "r", "t", " ",
        "s", "m", "a", "l", "l", "\n", "P", "R", "A", "C", "T", "I", "C",
        "A", "L", " ", "T", "I", "P", "S", ":", "\n", "-", " ", "s", "a",
        "v", "e">>,
      <<"N", "o", " ", "t", "e", "m", "p", "l", "a", "t", "e", ".">> }

MentorResponses ==
    { <<"W", "h", "a", "t", " ", "h", "a", "v", "e", " ", "y", "o", "u", " ",
        "t", "r", "i", "e", "d", "?">> }

Outcomes(responses) ==
    {Response(t) : t \in responses} \cup {Failure(e) : e \in ServiceErrors}

MaxHistory == 6

Init ==
    /\ text = <<>>
    /\ op = "none"
    /\ out = <<>>
    /\ calls = <<>>
    /\ conversation_history = <<>>
    /\ mentor_conversation = <<>>
    /\ raised = "none"

\* The calls the operations can make, for every input and every AI outcome.
DetectIssuesCalls ==
    {Called("detect_issues", ai, detect_issues(image_path, <<>>, ai)) :
        image_path \in ImagePaths, ai \in Outcomes(VisionResponses)}

ClassifyProblemCalls ==
    {Called("classify_problem", ai, classify_problem(d, ai)) :
        d \in ProblemDescriptions, ai \in Outcomes(ClassifyResponses)}

ClassifyWithVisionAnalysisCalls ==
    {Called("classify_with_vision_analysis", ai,
            classify_with_vision_analysis(v, ai)) :
        v \in VisionResponses, ai \in Outcomes(ClassifyResponses)}

GenerateMissionStatementCalls ==
    {Called("generate_mission_statement", ai,
            generate_mission_statement(d, <<>>, ai)) :
        d \in ProblemDescriptions, ai \in Outcomes(MissionResponses)}

CriticalThinkingModeCalls ==
    {Called("critical_thinking_mode", ai, critical_thinking_mode(d, <<>>, ai)) :
        d \in ProblemDescriptions, ai \in Outcomes(SocraticResponses)}

SolutionModeCalls ==
    {CalledWith("solution_mode",
                [problem_description |-> d, template_type |-> t,
                 category |-> c],
                _create_solution_template_prompt(
                    d, TemplateName(ChosenTemplate(d, t, c)), c),
                ai, solution_mode(d, t, c, ai)) :
        d \in ProblemDescriptions, t \in TemplateTypes,
        c \in {<<>>, Categories[2]}, ai \in Outcomes(TemplateResponses)}

ProcessImageRuns ==
    {process_image(image_path, <<>>, v, c, m) :
        image_path \in ImagePaths, v \in Outcomes(VisionResponses),
        c \in Outcomes(ClassifyResponses), m \in Outcomes(MissionResponses)}

ProcessTextDescriptionRuns ==
    {process_text_description(d, c, m) :
        d \in ProblemDescriptions, c \in Outcomes(ClassifyResponses),
        m \in Outcomes(MissionResponses)}

\* A direct call of one Domain Service returns the call's result.
\* CommunityIssueDetector.detect_issues
DetectIssues ==
    \E call \in DetectIssuesCalls :
        /\ op' = call.service
        /\ out' = call.result
        /\ calls' = <<call>>
        /\ UNCHANGED <<text, raised, conversation_history,
                 mentor_conversation>>

\* ProblemClassifier.classify_problem
ClassifyProblem ==
    \E call \in ClassifyProblemCalls :
        /\ op' = call.service
        /\ out' = call.result
        /\ calls' = <<call>>
        /\ UNCHANGED <<text, raised, conversation_history,
                 mentor_conversation>>

\* ProblemClassifier.classify_with_vision_analysis
ClassifyWithVisionAnalysis ==
    \E call \in ClassifyWithVisionAnalysisCalls :
        /\ op' = call.service
        /\ out' = call.result
        /\ calls' = <<call>>
        /\ UNCHANGED <<text, raised, conversation_history,
                 mentor_conversation>>

\* MissionStatementGenerator.generate_mission_statement
GenerateMissionStatement ==
    \E call \in GenerateMissionStatementCalls :
        /\ op' = call.service
        /\ out' = call.result
        /\ calls' = <<call>>
        /\ UNCHANGED <<text, raised, conversation_history,
                 mentor_conversation>>

\* AIMentor.critical_thinking_mode
CriticalThinkingMode ==
    \E call \in CriticalThinkingModeCalls :
        /\ op' = call.service
        /\ out' = call.result
        /\ calls' = <<call>>
        /\ UNCHANGED <<text, raised, conversation_history,
                 mentor_conversation>>

\* AIMentor.solution_mode
SolutionMode ==
    \E call \in SolutionModeCalls :
        /\ op' = call.service
        /\ out' = call.result
        /\ calls' = <<call>>
        /\ UNCHANGED <<text, raised, conversation_history,
                 mentor_conversation>>

InteractiveMentoring ==
    /\ Len(conversation_history) + 2 <= MaxHistory
    /\ \E m \in UserMessages, mode \in MentorModes,
          ai \in Outcomes(MentorResponses) :
           LET done == interactive_mentoring(conversation_history, m, mode,
               ai)
           IN  /\ op' = "interactive_mentoring"
               /\ out' = done.result
               /\ calls' = <<CalledWith("interactive_mentoring",
                                        [user_message |-> m, mode |-> mode],
                                        done.prompt, ai, done.result)>>
               /\ conversation_history' = done.history
    /\ UNCHANGED <<text, raised, mentor_conversation>>

\* AIMentor.reset_conversation
ResetConversation ==
    /\ op' = "reset_conversation"
    /\ out' = <<>>
    /\ calls' = <<>>
    /\ conversation_history' = <<>>
    /\ UNCHANGED <<text, raised, mentor_conversation>>

\* app.py lines 461-478: the Send button of the chat.  An empty message
\* gives a warning and nothing else; on success the UI appends the exchange to
\* its own transcript
ChatSend ==
    /\ Len(conversation_history) + 2 <= MaxHistory
    /\ Len(mentor_conversation) + 2 <= MaxHistory
    /\ \E user_message \in UserMessages \cup {<<>>}, mode \in MentorModes,
          ai \in Outcomes(MentorResponses) :
           LET done == interactive_mentoring(conversation_history,
                                             user_message, mode, ai)
           IN  IF user_message = <<>>
               THEN /\ out' = <<>>
                    /\ calls' = <<>>
                    /\ UNCHANGED <<conversation_history, mentor_conversation>>
               ELSE /\ out' = done.result
                    /\ calls' = <<CalledWith("interactive_mentoring",
                                      [user_message |-> user_message,
                                       mode |-> mode],
                                      done.prompt, ai, done.result)>>
                    /\ conversation_history' = done.history
                    /\ mentor_conversation' =
                           IF Get(done.result, "success", FALSE)
                           THEN mentor_conversation \o
                                    <<[role |-> "user",
                                       content |-> user_message],
                                      [role |-> "mentor",
                                       content |-> done.result.mentor_response]>>
                           ELSE mentor_conversation
    /\ op' = "chat_send"
    /\ UNCHANGED <<text, raised>>

\* app.py lines 483-488: the Clear Conversation button of the chat
ClearConversation ==
    /\ op' = "clear_conversation"
    /\ out' = <<>>
    /\ calls' = <<>>
    /\ mentor_conversation' = <<>>
    /\ conversation_history' = <<>>
    /\ UNCHANGED <<text, raised>>

\* AILearningPlatform.process_image
ProcessImage ==
    \E run \in ProcessImageRuns :
        /\ op' = "process_image"
        /\ out' = run.result
        /\ calls' = run.calls
        /\ UNCHANGED <<text, raised, conversation_history,
                 mentor_conversation>>

\* AILearningPlatform.process_text_description
ProcessTextDescription ==
    \E run \in ProcessTextDescriptionRuns :
        /\ op' = "process_text_description"
        /\ out' = run.result
        /\ calls' = run.calls
        /\ UNCHANGED <<text, raised, conversation_history,
                 mentor_conversation>>

Next ==
    \/ DetectIssues
    \/ ClassifyProblem
    \/ ClassifyWithVisionAnalysis
    \/ GenerateMissionStatement
    \/ CriticalThinkingMode
    \/ SolutionMode
    \/ InteractiveMentoring
    \/ ResetConversation
    \/ ChatSend
    \/ ClearConversation
    \/ ProcessImage
    \/ ProcessTextDescription

Spec == Init /\ [][Next]_vars

(***************************************************************************)
(* The list-item texts: every text of at most MaxListLen characters over   *)
(* ListAlphabet.                                                           *)
(***************************************************************************)
MaxListLen == 6

ListAlphabet == {"1", ".", "-", " ", "\n", "a"}

ListTexts == UNION {[1..n -> ListAlphabet] : n \in 0..MaxListLen}

ListInit ==
    /\ text \in ListTexts
    /\ op = "none"
    /\ out = <<>>
    /\ calls = <<>>
    /\ conversation_history = <<>>
    /\ mentor_conversation = <<>>
    /\ raised = "none"

ParseListItems ==
    /\ op = "none"
    /\ op' = "parse_list_items"
    /\ raised' = Exception(ListItemsRaise(text))
    /\ out' = Outcome(ListItemsRaise(text),
                       _parse_list_items(text))
    /\ UNCHANGED <<text, calls, conversation_history,
                 mentor_conversation>>

ListNext == ParseListItems

SpecList == ListInit /\ [][ListNext]_vars

(***************************************************************************)
(* Every parser on the same texts: the concatenations of at most           *)
(* MaxTotalChunks chunks, so the empty text, texts with a header repeated, *)
(* and texts that end right after a header.                                *)
(***************************************************************************)
MaxTotalChunks == 3

TotalTexts ==
    LET chunks ==
        { H_ACTION_STEPS, H_NEXT_STEPS, H_IMPLEMENTATION_GUIDE, H_PRACTICAL_TIPS,
          <<"C", "A", "T", "E", "G", "O", "R", "Y", ":">>, <<"1">>, <<".">>,
          <<"\n">>, <<"-", " ">>, <<"h", "e", "a", "l", "t", "h">> }
    IN  {Concat(cs) : cs \in UNION {[1..n -> chunks] : n \in 0..MaxTotalChunks}}

TotalInit ==
    /\ text \in TotalTexts
    /\ op = "none"
    /\ out = <<>>
    /\ calls = <<>>
    /\ conversation_history = <<>>
    /\ mentor_conversation = <<>>
    /\ raised = "none"

\* the template kinds of _create_solution_template_prompt
TemplateKinds == {"swot", "budget", "action_plan", "stakeholder", "timeline"}

ParseTemplateResponse ==
    /\ op = "none"
    /\ op' = "_parse_template_response"
    /\ raised' = Exception(TemplateRaises(text))
    /\ \E template_type \in TemplateKinds :
           out' = Outcome(TemplateRaises(text),
                          _parse_template_response(text, template_type))
    /\ UNCHANGED <<text, calls, conversation_history,
                 mentor_conversation>>

ParseClassification ==
    /\ op = "none"
    /\ op' = "_parse_classification"
    /\ raised' = Exception(ClassificationRaises(text))
    /\ out' = Outcome(ClassificationRaises(text), _parse_classification(text))
    /\ UNCHANGED <<text, calls, conversation_history,
                 mentor_conversation>>

TotalNext ==
    \/ ParseMission
    \/ ParseSocratic
    \/ ParseListItems
    \/ ParseTemplateResponse
    \/ ParseClassification

SpecTotal == TotalInit /\ [][TotalNext]_vars

(***************************************************************************)
(* _parse_classification on the concatenations of at most                  *)
(* MaxClassifyChunks chunks: category names in several cases, the          *)
(* category headers, confidence keywords and reasoning markers.            *)
(***************************************************************************)
MaxClassifyChunks == 3

ClassifyTexts ==
    LET chunks ==
        { <<"h", "e", "a", "l", "t", "h">>, <<"E", "d", "u", "c", "a", "t", "i",
          "o", "n">>, <<"E", "N", "V", "I", "R", "O", "N", "M", "E", "N",
          "T">>, <<"P", "R", "I", "M", "A", "R", "Y", " ", "C", "A", "T", "E",
          "G", "O", "R", "Y", ":">>,
          <<"C", "a", "t", "e", "g", "o", "r", "y", ":">>, <<"h", "i", "g",
          "h">>, <<"M", "e", "d", "i", "u", "m">>, <<"l", "o", "w">>, <<"R",
          "E", "A", "S", "O", "N", "I", "N", "G", ":">>, <<"R", "e", "a", "s",
          "o", "n", "i", "n", "g", ":">>,
          <<"b", "e", "c", "a", "u", "s", "e">>, <<"B", "e", "c", "a", "u", "s",
          "e">>, <<"\n">>, <<" ", "x", " ">> }
    IN  {Concat(cs) :
            cs \in UNION {[1..n -> chunks] : n \in 0..MaxClassifyChunks}}

ClassifyInit ==
    /\ text \in ClassifyTexts
    /\ op = "none"
    /\ out = <<>>
    /\ calls = <<>>
    /\ conversation_history = <<>>
    /\ mentor_conversation = <<>>
    /\ raised = "none"

SpecClassify == ClassifyInit /\ [][ParseClassification]_vars

(***************************************************************************)
(* _parse_mission_response on action step sections: the concatenations of  *)
(* at most MaxStepChunks chunks, among them lines that start with a digit, *)
(* '-', the bullet, '*' or a letter.                                       *)
(***************************************************************************)
MaxStepChunks == 4

StepTexts ==
    LET chunks ==
        { H_ACTION_STEPS, H_GOAL, <<"1", ".", " ", "a", "\n">>,
          <<" ", "-", " ", "b", " ", "\n">>, <<"*", " ", "c", "\n">>,
          <<"U+2022", " ", "d", "\n">>, <<"e", "\n">>, <<"\n">> }
    IN  {Concat(cs) :
            cs \in UNION {[1..n -> chunks] : n \in 0..MaxStepChunks}}

StepsInit ==
    /\ text \in StepTexts
    /\ op = "none"
    /\ out = <<>>
    /\ calls = <<>>
    /\ conversation_history = <<>>
    /\ mentor_conversation = <<>>
    /\ raised = "none"

SpecSteps == StepsInit /\ [][ParseMission]_vars

(***************************************************************************)
(* _parse_template_structure on template texts: the concatenations of at   *)
(* most MaxStructureChunks lines, among them headers, a header written     *)
(* with spaces around its name, items, a blank line, a line with ':' in    *)
(* lower case and an upper-case line without ':'.                          *)
(***************************************************************************)
MaxStructureChunks == 5

StructureTexts ==
    LET chunks ==
        { <<"S", "T", "R", "E", "N", "G", "T", "H", "S", ":", "\n">>,
          <<" ", "R", "I", "S", "K", "S", " ", ":", "\n">>,
          <<"-", " ", "a", "\n">>, <<" ", "b", " ", "\n">>, <<"\n">>,
          <<"N", "o", "t", "e", ":", " ", "c", "\n">>,
          <<"T", "O", "T", "A", "L", "\n">> }
    IN  {Concat(cs) :
            cs \in UNION {[1..n -> chunks] : n \in 0..MaxStructureChunks}}

StructureInit ==
    /\ text \in StructureTexts
    /\ op = "none"
    /\ out = <<>>
    /\ calls = <<>>
    /\ conversation_history = <<>>
    /\ mentor_conversation = <<>>
    /\ raised = "none"

ParseTemplateStructure ==
    /\ op = "none"
    /\ op' = "_parse_template_structure"
    /\ \E template_type \in TemplateKinds :
           out' = _parse_template_structure(text, template_type)
    /\ UNCHANGED <<text, raised, calls, conversation_history,
                 mentor_conversation>>

SpecStructure == StructureInit /\ [][ParseTemplateStructure]_vars

(***************************************************************************)
(* _extract_problem_description on the concatenations of at most           *)
(* MaxAnalysisChunks chunks of a vision analysis.                          *)
(***************************************************************************)
MaxAnalysisChunks == 5

H_DETECTED_ISSUES == <<"D", "E", "T", "E", "C", "T", "E", "D", " ", "I", "S",
                       "S", "U", "E", "S", ":">>

H_VISUAL_EVIDENCE == <<"V", "I", "S", "U", "A", "L", " ", "E", "V", "I", "D",
                       "E", "N", "C", "E", ":">>

H_RECOMMENDATIONS == <<"R", "E", "C", "O", "M", "M", "E", "N", "D", "A", "T",
                       "I", "O", "N", "S", ":">>

AnalysisTexts ==
    LET chunks ==
        { H_DETECTED_ISSUES, H_VISUAL_EVIDENCE, H_RECOMMENDATIONS,
          <<"\n">>, <<" ", "a">>, <<"b", " ", "\n">>, <<"-", " ", "c",
            "\n">> }
    IN  {Concat(cs) :
            cs \in UNION {[1..n -> chunks] : n \in 0..MaxAnalysisChunks}}

AnalysisInit ==
    /\ text \in AnalysisTexts
    /\ op = "none"
    /\ out = <<>>
    /\ calls = <<>>
    /\ conversation_history = <<>>
    /\ mentor_conversation = <<>>
    /\ raised = "none"

ExtractProblemDescription ==
    /\ op = "none"
    /\ op' = "_extract_problem_description"
    /\ out' = _extract_problem_description(text)
    /\ UNCHANGED <<text, raised, calls, conversation_history,
                 mentor_conversation>>

SpecDescribe == AnalysisInit /\ [][ExtractProblemDescription]_vars

(***************************************************************************)
(* _determine_template_type on the concatenations of at most               *)
(* MaxSubjectChunks chunks of a problem description.                       *)
(***************************************************************************)
MaxSubjectChunks == 3

SubjectTexts ==
    LET chunks ==
        { <<"B", "u", "d", "g", "e", "t">>, <<"c", "o", "s", "t">>, <<"c",
            "o", "m", "m", "u", "n", "i", "t", "y">>, <<"W", "H", "E", "N">>,
            <<"t", "h", "r", "e", "a", "t">>, <<"a", "n", "a", "l", "y", "z",
            "e">>,
          <<" ", "p", "l", "a", "n", " ">>, <<"x">> }
    IN  {Concat(cs) :
            cs \in UNION {[1..n -> chunks] : n \in 0..MaxSubjectChunks}}

SubjectInit ==
    /\ text \in SubjectTexts
    /\ op = "none"
    /\ out = <<>>
    /\ calls = <<>>
    /\ conversation_history = <<>>
    /\ mentor_conversation = <<>>
    /\ raised = "none"

\* category None is written <<>>
DetermineTemplateType ==
    /\ op = "none"
    /\ op' = "_determine_template_type"
    /\ \E category \in {<<>>, <<"H", "e", "a", "l", "t", "h">>} :
           out' = _determine_template_type(text, category)
    /\ UNCHANGED <<text, raised, calls, conversation_history,
                 mentor_conversation>>

SpecTemplate == SubjectInit /\ [][DetermineTemplateType]_vars

(***************************************************************************)
(* The prompt builders on a few problem descriptions: text is the          *)
(* description, out the prompt built from it.                              *)
(***************************************************************************)
PromptInit ==
    /\ text \in ProblemDescriptions
                \cup {<<>>, <<"x">>, <<"W", "H", "E", "N">>, <<"B", "u", "d",
                        "g", "e", "t">>, <<"n", "o", " ", "s", "c", "h", "o",
                        "o", "l", " ", "b", "o", "o", "k", "s">>}
    /\ op = "none"
    /\ out = <<>>
    /\ calls = <<>>
    /\ conversation_history = <<>>
    /\ mentor_conversation = <<>>
    /\ raised = "none"

CreateDetectionPrompt ==
    /\ op = "none"
    /\ op' = "_create_detection_prompt"
    /\ \E domains \in {Categories, <<Categories[2]>>,
                       <<Categories[3], <<"S", "a", "f", "e", "t", "y">>>>,
                         <<<<"S", "a", "f", "e", "t", "y">>>>} :
           out' = _create_detection_prompt(domains)
    /\ UNCHANGED <<text, raised, calls, conversation_history,
                 mentor_conversation>>

CreateMissionPrompt ==
    /\ op = "none"
    /\ op' = "_create_mission_prompt"
    /\ \E context \in {<<>>, <<"n", "e", "a", "r", " ", "t", "h", "e", " ",
                         "m", "a", "r", "k", "e", "t">>, <<"d", "r", "y",
                         " ", "s", "e", "a", "s", "o", "n">>} :
           out' = _create_mission_prompt(text, context)
    /\ UNCHANGED <<text, raised, calls, conversation_history,
                 mentor_conversation>>

CreateCriticalThinkingPrompt ==
    /\ op = "none"
    /\ op' = "_create_critical_thinking_prompt"
    /\ \E context \in {<<>>, <<"n", "e", "a", "r", " ", "t", "h", "e", " ",
                         "m", "a", "r", "k", "e", "t">>, <<"d", "r", "y",
                         " ", "s", "e", "a", "s", "o", "n">>} :
           out' = _create_critical_thinking_prompt(text, context)
    /\ UNCHANGED <<text, raised, calls, conversation_history,
                 mentor_conversation>>

CreateSolutionTemplatePrompt ==
    /\ op = "none"
    /\ op' = "_create_solution_template_prompt"
    /\ \E template_type \in DOMAIN template_instructions \cup {<<"c", "a",
        "n", "v", "a", "s">>},
          category \in {<<>>, Categories[2]} :
           out' = _create_solution_template_prompt(text, template_type,
                                                   category)
    /\ UNCHANGED <<text, raised, calls, conversation_history,
                 mentor_conversation>>

PromptNext ==
    \/ CreateDetectionPrompt
    \/ CreateMissionPrompt
    \/ CreateCriticalThinkingPrompt
    \/ CreateSolutionTemplatePrompt

SpecPrompt == PromptInit /\ [][PromptNext]_vars

(***************************************************************************)
(* What the specification says of text, stated over positions instead of   *)
(* computed as the code computes it.  The claims below compare the values  *)
(* the parsers return with these.                                          *)
(***************************************************************************)
MinOf(S) == CHOOSE x \in S : \A y \in S : x <= y

MaxOf(S) == CHOOSE x \in S : \A y \in S : x >= y

\* s without its leading and trailing whitespace
Trimmed(s) ==
    LET black == {i \in 1..Len(s) : s[i] \notin Whitespace}
    IN  IF black = {} THEN <<>> ELSE SubSeq(s, MinOf(black), MaxOf(black))

\* s without its leading run of characters of chars
WithoutLeading(s, chars) ==
    LET other == {i \in 1..Len(s) : s[i] \notin chars}
    IN  IF other = {} THEN <<>> ELSE SubSeq(s, MinOf(other), Len(s))

\* the positions of t that end a line, and the lines between them
LineBreaks(t) == {0} \cup {i \in 1..Len(t) : t[i] = "\n"} \cup {Len(t) + 1}

LineCount(t) == Cardinality(LineBreaks(t)) - 1

LineAt(t, k) ==
    LET lo == CHOOSE b \in LineBreaks(t) :
                  Cardinality({c \in LineBreaks(t) : c < b}) = k - 1
        hi == MinOf({b \in LineBreaks(t) : b > lo})
    IN  SubSeq(t, lo + 1, hi - 1)

\* a line with surrounding whitespace and its leading bullet characters removed
Unbulleted(line) == Trimmed(WithoutLeading(Trimmed(line), BulletChars))

\* a line starts with a digit and holds a "." within its first 3 characters
NumberedLine(u) ==
    /\ u # <<>>
    /\ u[1] \in Digits
    /\ \E i \in 1..3 : i <= Len(u) /\ u[i] = "."

\* the trimmed text after the first "." of u
AfterFirstDot(u) ==
    LET dots == {i \in 1..Len(u) : u[i] = "."}
    IN  Trimmed(SubSeq(u, MinOf(dots) + 1, Len(u)))

\* the item the specification gives a line: bullets, then the number prefix
SpecItem(line) ==
    LET u == Unbulleted(line)
    IN  IF NumberedLine(u) THEN AfterFirstDot(u) ELSE u

\* items holds, in line order, item(line) of every line of t that has one
ItemsOfLines(items, t, item(_)) ==
    LET kept == {k \in 1..LineCount(t) : item(LineAt(t, k)) # <<>>}
    IN  /\ Len(items) = Cardinality(kept)
        /\ \A k \in kept :
               items[Cardinality({j \in kept : j <= k})] = item(LineAt(t, k))

Listed == op = "parse_list_items"

\* C8: _parse_list_items is idempotent on its own output: parsing its items,
\* joined one per line, gives the same items again.
C8_Idempotent ==
    Listed => _parse_list_items(JoinWith(out, <<"\n">>)) = out

\* C9, as stated: one item per non-blank line, in line order, each item the line
\* with surrounding whitespace and leading bullet characters removed (and nothing
\* else); lines that become empty give no item.
C9_BulletsOnly == Listed => ItemsOfLines(out, text, Unbulleted)

\* C9, amended: as C9, and a line that then starts with a digit and holds a "."
\* within its first 3 characters also loses everything up to that first ".".
C9_ItemsPerLine == Listed => ItemsOfLines(out, text, SpecItem)

\* C9's case: two lines, a bulleted one and a blank one between whitespace.
C9_Witness ==
    /\ Listed
    /\ text = <<" ", "-", "a", "\n", " ", "\n">>
    /\ out = << <<"a">> >>

\* C10: after bullet stripping, a line is shortened to the trimmed text after its
\* first "." if and only if it starts with a digit and a "." occurs within its
\* first 3 characters; otherwise it is left unchanged.
C10_NumberPrefix ==
    Listed =>
        /\ \A k \in 1..LineCount(text) :
               LET u == Unbulleted(LineAt(text, k))
               IN  ListItemOf(LineAt(text, k)) =
                       IF NumberedLine(u) THEN AfterFirstDot(u) ELSE u
        /\ LineCount(text) = 1 =>
               LET u == Unbulleted(text)
                   e == IF NumberedLine(u) THEN AfterFirstDot(u) ELSE u
               IN  out = IF e = <<>> THEN <<>> ELSE <<e>>

\* C10's case: the "." is the third character, so the prefix goes; and a line
\* whose first "." is the fourth character would stay whole.
C10_Witness ==
    /\ Listed
    /\ text = <<"1", "1", ".", " ", "a">>
    /\ out = << <<"a">> >>

(***************************************************************************)
(* Sections, stated over the positions of the headers in the text.         *)
(***************************************************************************)
\* pat occurs in t at position i (1-based)
OccursAt(t, pat, i) ==
    /\ i + Len(pat) - 1 <= Len(t)
    /\ SubSeq(t, i, i + Len(pat) - 1) = pat

Occurs(t, pat) == \E i \in 1..Len(t) : OccursAt(t, pat, i)

FirstAt(t, pat) == MinOf({i \in 1..Len(t) : OccursAt(t, pat, i)})

HeaderSet(sections, K) ==
    {SectionOf(sections, K).headers[j] :
        j \in 1..Len(SectionOf(sections, K).headers)}

OtherKeyHeaders(sections, K) ==
    UNION {HeaderSet(sections, K2) : K2 \in SectionKeys(sections) \ {K}}

EveryHeader(sections) ==
    UNION {HeaderSet(sections, K) : K \in SectionKeys(sections)}

\* the first-declared header of K that occurs in t (one does)
UsedHeader(sections, K, t) ==
    LET hs == SectionOf(sections, K).headers
    IN  hs[MinOf({j \in 1..Len(hs) : Occurs(t, hs[j])})]

\* the position after the first occurrence of header H
ContentStart(t, H) == FirstAt(t, H) + Len(H)

\* the positions from from on at which a header of hs occurs
CutsFrom(t, from, hs) ==
    {i \in from..Len(t) : \E h \in hs : OccursAt(t, h, i)}

\* the text from from up to the nearest header of hs, or to the end of t
UpToNearest(t, from, hs) ==
    IF CutsFrom(t, from, hs) = {} THEN SubSeq(t, from, Len(t))
    ELSE SubSeq(t, from, MinOf(CutsFrom(t, from, hs)) - 1)

\* K's section as the specification delimits it: by the other keys' headers
SpecContent(t, sections, K) ==
    Trimmed(UpToNearest(t, ContentStart(t, UsedHeader(sections, K, t)),
                        OtherKeyHeaders(sections, K)))

\* the trimmed line when it starts with a digit, "-" or the bullet
StepItem(line) ==
    LET s == Trimmed(line)
    IN  IF s # <<>> /\ s[1] \in Digits \cup {"-", "U+2022"} THEN s ELSE <<>>

\* v is what the mission parser stores under K for a section of this content
IsMissionValue(v, K, content) ==
    IF K = "action_steps"
    THEN v.type = "list" /\ ItemsOfLines(v.value, content, StepItem)
    ELSE v.type = "str" /\ v.value = content

\* v is what the Socratic parser stores for a section of this content
IsSocraticValue(v, content) ==
    v.type = "list" /\ ItemsOfLines(v.value, content, SpecItem)

ParsedMission == op = "_parse_mission_response"

ParsedSocratic == op = "_parse_socratic_response"

KeysAsHeadersOccur(parsed, sections, t) ==
    /\ DOMAIN parsed \subseteq SectionKeys(sections)
    /\ \A K \in SectionKeys(sections) :
           K \in DOMAIN parsed <=> \E h \in HeaderSet(sections, K) : Occurs(t, h)
    /\ (\A h \in EveryHeader(sections) : ~Occurs(t, h)) => DOMAIN parsed = {}

\* C4: the parsed keys are a subset of the Section Map's keys, and a key is
\* present if and only if one of its header variants occurs literally in the
\* text; a text with none of the headers gives the empty mapping.
C4_KeysIffHeader ==
    /\ ParsedMission => KeysAsHeadersOccur(out, MissionSections, text)
    /\ ParsedSocratic => KeysAsHeadersOccur(out, SocraticSections, text)

\* C4's case: only the title-case variant of one key occurs, and only that key
\* is returned.
C4_Witness ==
    /\ ParsedMission
    /\ Occurs(text, H_Goal)
    /\ ~Occurs(text, H_GOAL)
    /\ DOMAIN out = {"goal"}

\* C5: a section's content is the trimmed text from the end of its header up to
\* the nearest later header of a key other than its own, or to the end of the
\* text; headers of its own key never end it.  Mission parser and mentor alike.
C5_OtherKeysDelimit ==
    /\ ParsedMission =>
           \A K \in DOMAIN out :
               IsMissionValue(out[K], K, SpecContent(text, MissionSections, K))
    /\ op = "_extract_section_content" =>
           out.content = SpecContent(text, SocraticSections, out.key)

\* the mission parser's half of C5, which the code keeps
C5_MissionDelimits ==
    ParsedMission =>
        \A K \in DOMAIN out :
            IsMissionValue(out[K], K, SpecContent(text, MissionSections, K))

\* K's header is followed by content that holds no declared header, and then
\* by a header of another key
PlainSection(t, sections, K) ==
    LET from == ContentStart(t, UsedHeader(sections, K, t))
    IN  /\ CutsFrom(t, from, OtherKeyHeaders(sections, K)) # {}
        /\ MinOf(CutsFrom(t, from, EveryHeader(sections)))
               = MinOf(CutsFrom(t, from, OtherKeyHeaders(sections, K)))

\* C6, as stated: header H, content C (here not blank), then another header
\* H2: every section key, list-valued ones included, maps to the text C, trimmed.
C6_AlwaysText ==
    /\ ParsedMission =>
           \A K \in DOMAIN out :
               (/\ PlainSection(text, MissionSections, K)
                /\ SpecContent(text, MissionSections, K) # <<>>) =>
                   /\ out[K].type = "str"
                   /\ out[K].value = SpecContent(text, MissionSections, K)
    /\ ParsedSocratic =>
           \A K \in DOMAIN out :
               (/\ PlainSection(text, SocraticSections, K)
                /\ SpecContent(text, SocraticSections, K) # <<>>) =>
                   /\ out[K].type = "str"
                   /\ out[K].value = SpecContent(text, SocraticSections, K)

\* C6, amended: a text-valued key (mission_statement, problem_definition, goal,
\* expected_impact) maps to C, trimmed, whatever whitespace surrounds it; a
\* list-valued key (action_steps, every Socratic key) maps to the list taken
\* from the trimmed C.
C6_ContentBetweenHeaders ==
    /\ ParsedMission =>
           \A K \in DOMAIN out :
               PlainSection(text, MissionSections, K) =>
                   IsMissionValue(out[K], K,
                                  SpecContent(text, MissionSections, K))
    /\ ParsedSocratic =>
           \A K \in DOMAIN out :
               PlainSection(text, SocraticSections, K) =>
                   IsSocraticValue(out[K],
                                   SpecContent(text, SocraticSections, K))

\* C6's case: "GOAL:", whitespace, "a", whitespace, "ACTION STEPS:".
C6_Witness ==
    /\ ParsedMission
    /\ text = H_GOAL \o <<" ", "a", "\n">> \o H_ACTION_STEPS
    /\ out["goal"] = Str(<<"a">>)

\* C7: the scenario response parses to the mission statement, the problem
\* definition and the two action steps without their numbering, and to no goal
\* and no expected impact.
C7_Scenario ==
    (ParsedMission /\ text = ScenarioResponse) =>
        out = [mission_statement |-> Str(ScenarioMission),
               problem_definition |-> Str(ScenarioProblem),
               action_steps |-> List(<<ScenarioStep1, ScenarioStep2>>)]

\* what the code returns for the scenario: the steps keep their numbering
C7_ScenarioAsCoded ==
    (ParsedMission /\ text = ScenarioResponse) =>
        out = [mission_statement |-> Str(ScenarioMission),
               problem_definition |-> Str(ScenarioProblem),
               action_steps |-> List(<<ScenarioLine1, ScenarioLine2>>)]

(***************************************************************************)
(* The pipelines and the Domain Services.                                  *)
(***************************************************************************)
PipelineRan == op \in {"process_image", "process_text_description"}

ServiceOps ==
    {"classify_problem", "classify_with_vision_analysis",
     "generate_mission_statement", "detect_issues", "critical_thinking_mode",
     "solution_mode", "interactive_mentoring"}

\* the name a pipeline result gives the step that a service carries out
StepOf(service) ==
    CASE service = "detect_issues" -> "vision_detection"
      [] service \in {"classify_problem", "classify_with_vision_analysis"} ->
             "classification"
      [] service = "generate_mission_statement" -> "mission_generation"

\* the place of a service in the order detect, classify, generate mission
StepRank(service) ==
    CASE service = "detect_issues" -> 1
      [] service \in {"classify_problem", "classify_with_vision_analysis"} -> 2
      [] service = "generate_mission_statement" -> 3

FailedCalls == {i \in 1..Len(calls) : ~calls[i].result.success}

\* C1: when a step of a pipeline run returns success=False, the pipeline result
\* has success=False and its step names the first failed step; a pipeline
\* result with success=True means every step of the run succeeded.
C1_FailureShortCircuits ==
    PipelineRan =>
        /\ FailedCalls # {} =>
               /\ out.success = FALSE
               /\ out.step = StepOf(calls[MinOf(FailedCalls)].service)
        /\ out.success => FailedCalls = {}

\* C1 for process_text_description alone, which checks both of its steps
C1_TextPipelineShortCircuits ==
    op = "process_text_description" =>
        /\ FailedCalls # {} =>
               /\ out.success = FALSE
               /\ out.step = StepOf(calls[MinOf(FailedCalls)].service)
        /\ out.success => FailedCalls = {}

\* C2: a pipeline run calls the Domain Services in the order detect, classify,
\* generate mission, each at most once, and calls none after a step that
\* returned success=False.
C2_OrderedNoCallAfterFailure ==
    PipelineRan =>
        \A i, j \in 1..Len(calls) :
            i < j =>
                /\ StepRank(calls[i].service) < StepRank(calls[j].service)
                /\ calls[i].result.success

\* a result is tagged: it holds success, holds error exactly when success is
\* False, and is a failure carrying the message when the AI call failed
TaggedResult(result, ai) ==
    /\ "success" \in DOMAIN result
    /\ result.success \in BOOLEAN
    /\ "error" \in DOMAIN result <=> ~result.success
    /\ ~ai.ok => ~result.success /\ result.error = ai.error

\* C3: every Domain Service call returns a result value instead of raising: on a
\* failed AI call it has success=False and the error message, and a result
\* holds an error field exactly when its success flag is False.
C3_TaggedResults ==
    /\ \A i \in 1..Len(calls) : TaggedResult(calls[i].result, calls[i].ai)
    /\ op \in ServiceOps => Len(calls) = 1 /\ out = calls[1].result

\* C3's case: the AI call of a chat turn fails and the turn returns the failure.
C3_Witness ==
    /\ op = "interactive_mentoring"
    /\ ~calls[1].ai.ok
    /\ out.success = FALSE
    /\ out.error = "429 quota exceeded"

(***************************************************************************)
(* The parsers are total.                                                  *)
(***************************************************************************)
Parsers ==
    {"_parse_mission_response", "_parse_socratic_response",
     "parse_list_items", "_parse_template_response", "_parse_classification"}

\* C11: every parser returns a value for every text and no exception leaves
\* it; no index expression it evaluates is out of range.
C11_ParsersTotal ==
    /\ op \in Parsers => raised = "none"
    /\ ~MissionRaises(text)
    /\ ~SocraticRaises(text)
    /\ ~ListItemsRaise(text)
    /\ ~TemplateRaises(text)
    /\ ~ClassificationRaises(text)

\* C11's case: a text that ends right after a repeated header, with a digit
\* and no "." before it, has been parsed as a list.
C11_Witness ==
    /\ op = "parse_list_items"
    /\ text = <<"1">> \o H_NEXT_STEPS \o H_NEXT_STEPS
    /\ raised = "none"
    /\ out = << <<"1">> \o H_NEXT_STEPS \o H_NEXT_STEPS >>

(***************************************************************************)
(* Classification, stated over the occurrences of the category names, the  *)
(* keywords and the markers in the text.                                   *)
(***************************************************************************)
Classified == op = "_parse_classification"

\* a and b are the same character up to case
SameLetter(a, b) ==
    \/ a = b
    \/ a \in DOMAIN ToLower /\ ToLower[a] = b
    \/ b \in DOMAIN ToLower /\ ToLower[b] = a
    \/ a \in DOMAIN ToLower /\ b \in DOMAIN ToLower /\ ToLower[a] = ToLower[b]

\* pat occurs in t, case ignored
OccursAnyCase(t, pat) ==
    \E i \in 1..(Len(t) - Len(pat) + 1) :
        \A j \in 1..Len(pat) : SameLetter(t[i + j - 1], pat[j])

\* the places in known_categories of the categories that occur in t
CategoriesIn(t) == {i \in 1..Len(Categories) : OccursAnyCase(t,
    Categories[i])}

\* C12: a response that holds no known category (case ignored) and no
\* "CATEGORY:" line is classified as known_categories[0].
C12_DefaultCategory ==
    (/\ Classified
     /\ CategoriesIn(text) = {}
     /\ ~Occurs(text, <<"C", "A", "T", "E", "G", "O", "R", "Y", ":">>)) =>
        out.category = Categories[1]

\* C12's case: a response with a confidence keyword and a reasoning marker but
\* no category and no category header is classified as Environment.
C12_Witness ==
    /\ Classified
    /\ text = <<"l", "o", "w", "b", "e", "c", "a", "u", "s", "e">>
    /\ out.category = <<"E", "n", "v", "i", "r", "o", "n", "m", "e", "n",
                        "t">>

\* C13: when a known category occurs in the response (case ignored), the
\* category returned is the one of those occurring that comes first in
\* known_categories, wherever each occurs in the text.
C13_FirstListedCategory ==
    (Classified /\ CategoriesIn(text) # {}) =>
        out.category = Categories[MinOf(CategoriesIn(text))]

\* C13's case: Education occurs before health in the text, and Health, which
\* comes first in the list, is returned.
C13_Witness ==
    /\ Classified
    /\ text = <<"E", "d", "u", "c", "a", "t", "i", "o", "n", "h", "e", "a",
                "l", "t", "h">>
    /\ out.category = <<"H", "e", "a", "l", "t", "h">>

\* the response holds a keyword of the g-th confidence group (all keywords
\* are lower-case, so "in the lowercased response" is "case ignored")
HasKeyword(t, g) ==
    \E k \in 1..Len(ConfidenceKeywords[g].keywords) :
        OccursAnyCase(t, ConfidenceKeywords[g].keywords[k])

\* C14: the confidence is High if the lowercased response holds a high-group
\* keyword, else Medium if it holds a medium-group keyword, else Low if it
\* holds a low-group keyword, else Unknown.
C14_ConfidenceByGroup ==
    Classified =>
        out.confidence =
            IF HasKeyword(text, 1) THEN <<"H", "i", "g", "h">>
            ELSE IF HasKeyword(text, 2) THEN <<"M", "e", "d", "i", "u", "m">>
            ELSE IF HasKeyword(text, 3) THEN <<"L", "o", "w">>
            ELSE <<"U", "n", "k", "n", "o", "w", "n">>

\* C14's case: a low-group keyword comes before a medium-group keyword in the
\* text and no high-group one occurs: Medium.
C14_Witness ==
    /\ Classified
    /\ text = <<"l", "o", "w", " ", "x", " ", "M", "e", "d", "i", "u", "m">>
    /\ out.confidence = <<"M", "e", "d", "i", "u", "m">>

\* the markers the specification names
SpecMarkers == {<<"R", "E", "A", "S", "O", "N", "I", "N", "G", ":">>, <<"R",
                  "e", "a", "s", "o", "n", "i", "n", "g", ":">>, <<"b", "e",
                  "c", "a", "u", "s", "e">>}

MarkersIn(t) == {mk \in SpecMarkers : Occurs(t, mk)}

\* the text after the first occurrence of a marker in t (one occurs)
AfterFirstMarker(t) ==
    LET first == CHOOSE mk \in MarkersIn(t) :
                     \A other \in MarkersIn(t) : FirstAt(t, mk) <= FirstAt(t,
                         other)
    IN  SubSeq(t, FirstAt(t, first) + Len(first), Len(t))

\* C15: when a marker occurs, the reasoning is the text that follows the first
\* occurrence of a marker in the response, the marker not included (trimmed or
\* not); when none occurs, the reasoning is the whole response.
C15_ReasoningAfterMarker ==
    Classified =>
        IF MarkersIn(text) # {}
        THEN out.reasoning \in
                 {AfterFirstMarker(text), Trimmed(AfterFirstMarker(text))}
        ELSE out.reasoning = text

\* what the code returns: the trimmed text from the first occurrence of the
\* marker that comes first in the list REASONING:, Reasoning:, because,
\* Because, that marker included; the whole response when none occurs
C15_ReasoningAsCoded ==
    Classified =>
        LET present == {i \in 1..Len(ReasoningMarkers) :
                           Occurs(text, ReasoningMarkers[i])}
        IN  IF present # {}
            THEN out.reasoning =
                     Trimmed(SubSeq(text,
                         FirstAt(text, ReasoningMarkers[MinOf(present)]),
                         Len(text)))
            ELSE out.reasoning = text

(***************************************************************************)
(* The problem description, stated over the lines of the issues section.  *)
(***************************************************************************)
Described == op = "_extract_problem_description"

\* the text that follows the first DETECTED ISSUES: marker, up to the next
\* VISUAL EVIDENCE: or, failing that, RECOMMENDATIONS: marker, or to the end
IssuesSection(t) ==
    LET from == ContentStart(t, H_DETECTED_ISSUES)
        evidence == CutsFrom(t, from, {H_VISUAL_EVIDENCE})
        recommendations == CutsFrom(t, from, {H_RECOMMENDATIONS})
        to == IF evidence # {} THEN MinOf(evidence)
              ELSE IF recommendations # {} THEN MinOf(recommendations)
              ELSE Len(t) + 1
    IN  SubSeq(t, from, to - 1)

\* the places of the lines of s that are not blank and are no header line
IssueLineNumbers(s) ==
    {k \in 1..LineCount(s) :
        /\ Trimmed(LineAt(s, k)) # <<>>
        /\ ~OccursAt(Trimmed(LineAt(s, k)), <<"D", "E", "T", "E", "C", "T",
            "E", "D">>, 1)}

\* items is the first n of the trimmed lines of s numbered by ks, joined by
\* single spaces
RECURSIVE JoinedLines(_, _, _)
JoinedLines(s, ks, n) ==
    IF ks = {} \/ n = 0 THEN <<>>
    ELSE LET k == MinOf(ks)
             rest == JoinedLines(s, ks \ {k}, n - 1)
         IN  IF rest = <<>> THEN Trimmed(LineAt(s, k))
             ELSE Trimmed(LineAt(s, k)) \o <<" ">> \o rest

\* C16: with the marker present, the description is the first 3 non-blank,
\* non-header lines of the text that follows the marker, joined by single
\* spaces, so issue text after the marker is never lost; with the marker
\* absent, or no such line, it is the first 200 characters of the analysis.
C16_FirstIssueLines ==
    Described =>
        IF /\ Occurs(text, H_DETECTED_ISSUES)
           /\ IssueLineNumbers(IssuesSection(text)) # {}
        THEN out = JoinedLines(IssuesSection(text),
                               IssueLineNumbers(IssuesSection(text)),
                               DescriptionLines)
        ELSE out \in {SubSeq(text, 1, MinOf({Len(text),
            DescriptionFallbackLen})),
                      Trimmed(SubSeq(text, 1,
                                  MinOf({Len(text),
                                      DescriptionFallbackLen})))}

\* what the code returns: the section starts at the marker itself, so the
\* whole first line, with the issue text that shares it with the marker, is
\* the header line that is left out
C16_MarkerLineDropped ==
    (Described /\ Occurs(text, H_DETECTED_ISSUES)) =>
        LET section == H_DETECTED_ISSUES \o IssuesSection(text)
            stripped == Trimmed(section)
        IN  IF IssueLineNumbers(stripped) # {}
            THEN out = JoinedLines(stripped, IssueLineNumbers(stripped),
                                   DescriptionLines)
            ELSE out = SubSeq(text, 1, MinOf({Len(text),
                DescriptionFallbackLen}))

(***************************************************************************)
(* Template auto-selection, stated over the keywords that occur.           *)
(***************************************************************************)
\* the places, in the order budget, stakeholder, timeline, swot, of the
\* keyword groups with a keyword in t, case ignored (all keywords are
\* lower-case)
GroupsIn(t) ==
    {g \in 1..Len(TemplateKeywords) :
        \E k \in 1..Len(TemplateKeywords[g].keywords) :
            OccursAnyCase(t, TemplateKeywords[g].keywords[k])}

\* C17: auto-selection returns one of the five kinds; budget whenever a
\* budget-group keyword occurs, whatever else occurs; otherwise the first of
\* stakeholder, timeline, swot with a keyword present; and action_plan exactly
\* when no recognised keyword occurs.
C17_TemplateByGroup ==
    op = "_determine_template_type" =>
        /\ out \in {"budget", "stakeholder", "timeline", "swot",
            "action_plan"}
        /\ OccursAnyCase(text, <<"b", "u", "d", "g", "e",
                                 "t">>) => out = "budget"
        /\ 1 \in GroupsIn(text) => out = "budget"
        /\ GroupsIn(text) # {} =>
               out = <<"budget", "stakeholder", "timeline", "swot">>[
                         MinOf(GroupsIn(text))]
        /\ out = "action_plan" <=> GroupsIn(text) = {}

\* C17's case: a swot keyword and a timeline keyword come before "Budget" in
\* the subject text, and budget is selected.
C17_Witness ==
    /\ op = "_determine_template_type"
    /\ text = <<"t", "h", "r", "e", "a", "t", "W", "H", "E", "N", "B", "u",
                "d", "g", "e", "t">>
    /\ out = "budget"

(***************************************************************************)
(* The conversation transcript.                                            *)
(***************************************************************************)
IsPrefix(a, b) == Len(a) <= Len(b) /\ SubSeq(b, 1, Len(a)) = a

Clears == {"reset_conversation", "clear_conversation"}

\* C18: the mentor's transcript is append-only and role-tagged: a step of
\* interactive_mentoring (called directly or by the chat's Send) leaves the
\* history it found as a prefix of the history it leaves, every entry has role
\* user or mentor, and only reset_conversation and the chat's Clear
\* Conversation remove entries, leaving the transcript empty.
C18_AppendOnly ==
    [][/\ op' \in {"interactive_mentoring", "chat_send"} =>
              IsPrefix(conversation_history, conversation_history')
       /\ \A i \in 1..Len(conversation_history') :
              conversation_history'[i].role \in {"user", "mentor"}
       /\ ~IsPrefix(conversation_history, conversation_history') =>
              op' \in Clears
       /\ op' \in Clears => conversation_history' = <<>>]_vars

\* C18's case: two successful turns have been appended, the second by a direct
\* call.
C18_Witness ==
    /\ op = "interactive_mentoring"
    /\ Len(conversation_history) = 4
    /\ conversation_history[3].role = "user"
    /\ conversation_history[4].role = "mentor"


(***************************************************************************)
(* Headers of the prompts.                                                 *)
(***************************************************************************)
LabelChars == DOMAIN ToLower \cup {" ", "/", "-"}

\* the label the colon at position i of p ends: the run of capitals, spaces,
\* '/' and '-' before it, from its first capital, with the colon; <<>> when
\* the run holds no capital
LabelAt(p, i) ==
    LET s == CHOOSE k \in 0..(i - 1) :
                 /\ k = 0 \/ p[k] \notin LabelChars
                 /\ \A j \in (k + 1)..(i - 1) : p[j] \in LabelChars
        capitals == {j \in (s + 1)..(i - 1) : p[j] \in DOMAIN ToLower}
    IN  IF capitals = {} THEN <<>> ELSE SubSeq(p, MinOf(capitals), i)

\* the upper-case headers written in p
UpperLabels(p) ==
    {LabelAt(p, i) : i \in {j \in 1..Len(p) : p[j] = ":"}} \ {<<>>}

\* the first header declared for each key of a section map
FirstVariants(sections) ==
    {sections[i].headers[1] : i \in 1..Len(sections)}

\* the headers p embeds: its upper-case headers, and every searched header
\* that occurs in it literally
Embedded(p, searched) == UpperLabels(p) \cup {h \in searched : Occurs(p, h)}

TemplateHeaders == {H_IMPLEMENTATION_GUIDE, H_PRACTICAL_TIPS}

DetectionHeaders == {H_DETECTED_ISSUES, H_VISUAL_EVIDENCE, H_RECOMMENDATIONS}

\* C19 as claimed: the set of section headers embedded in a builder's prompt
\* is exactly the set of headers the paired parser searches for (the Socratic
\* map, the mission map, the two template headers, the three detection
\* headers).
C19_HeadersExactlyMatch ==
    /\ op = "_create_critical_thinking_prompt" =>
           Embedded(out, EveryHeader(SocraticSections))
               = EveryHeader(SocraticSections)
    /\ op = "_create_mission_prompt" =>
           Embedded(out, EveryHeader(MissionSections))
               = EveryHeader(MissionSections)
    /\ op = "_create_solution_template_prompt" =>
           Embedded(out, TemplateHeaders) = TemplateHeaders
    /\ op = "_create_detection_prompt" =>
           Embedded(out, DetectionHeaders) = DetectionHeaders

\* C19, amended: the upper-case headers of the critical-thinking, mission and
\* detection prompts are exactly the first header of every key the paired
\* parser searches for; the parsers' second, title-case headers are in no
\* prompt; the solution-template prompt holds the two headers its parser
\* splits on and, besides them, the headers of its template kind.
C19_FirstVariantsEmbedded ==
    /\ op = "_create_critical_thinking_prompt" =>
           /\ UpperLabels(out) = FirstVariants(SocraticSections)
           /\ \A h \in EveryHeader(SocraticSections) :
                  Occurs(out, h) <=> h \in FirstVariants(SocraticSections)
    /\ op = "_create_mission_prompt" =>
           /\ UpperLabels(out) = FirstVariants(MissionSections)
           /\ \A h \in EveryHeader(MissionSections) :
                  Occurs(out, h) <=> h \in FirstVariants(MissionSections)
    /\ op = "_create_solution_template_prompt" =>
           /\ TemplateHeaders \subseteq UpperLabels(out)
           /\ TemplateHeaders # UpperLabels(out)
           /\ \A h \in TemplateHeaders : Occurs(out, h)
    /\ op = "_create_detection_prompt" =>
           /\ UpperLabels(out) = DetectionHeaders
           /\ \A h \in DetectionHeaders : Occurs(out, h)

\* C19's case: a critical-thinking prompt built for a description holds
\* 'NEXT STEPS:' and not 'Next Steps:'.
C19_Witness ==
    /\ op = "_create_critical_thinking_prompt"
    /\ text # <<>>
    /\ Occurs(out, H_NEXT_STEPS)
    /\ ~Occurs(out, H_Next_Steps)


(***************************************************************************)
(* Fields of the successful results.                                       *)
(***************************************************************************)
\* the result field that holds the section of key K
FieldOf(K) ==
    CASE K = "questions" -> "guiding_questions"
      [] K = "reflections" -> "reflection_prompts"
      [] K = "challenges" -> "challenge_points"
      [] OTHER -> K

\* the value the claim gives the field of K when the response t holds no
\* header of K
EmptyDefault(service, K, t) ==
    IF service = "generate_mission_statement"
    THEN CASE K = "mission_statement" -> Str(t)
           [] K = "action_steps" -> List(<<>>)
           [] OTHER -> Str(<<>>)
    ELSE List(<<>>)

\* the calls of the two services that succeeded, alone or inside a pipeline
SucceededCalls(service) ==
    {i \in 1..Len(calls) :
        calls[i].service = service /\ calls[i].result.success}

\* every field is in the result, and the field of a section whose headers
\* are all absent from the response holds the default
HasEveryField(service, sections, call) ==
    \A K \in SectionKeys(sections) :
        /\ FieldOf(K) \in DOMAIN call.result
        /\ (\A h \in HeaderSet(sections, K) : ~Occurs(call.ai.text, h)) =>
               call.result[FieldOf(K)] = EmptyDefault(service, K, call.ai.text)

\* C20: a successful generate_mission_statement or critical_thinking_mode
\* returns every output field; the field of a section whose header is not in
\* the response is '' (text) or [] (list), except mission_statement, which is
\* then the whole response.
C20_DefaultFields ==
    /\ \A i \in SucceededCalls("generate_mission_statement") :
           HasEveryField("generate_mission_statement", MissionSections,
                         calls[i])
    /\ \A i \in SucceededCalls("critical_thinking_mode") :
           HasEveryField("critical_thinking_mode", SocraticSections, calls[i])

\* C20's case: the response holds 'Goal:' alone; the goal is parsed, the
\* mission statement is the whole response and the steps are [].
C20_Witness ==
    /\ op = "generate_mission_statement"
    /\ out.success
    /\ ~Occurs(out.full_response, H_MISSION_STATEMENT)
    /\ out.goal # Str(<<>>)
    /\ out.mission_statement = Str(out.full_response)
    /\ out.action_steps = List(<<>>)


(***************************************************************************)
(* Which header variant opens a section.                                   *)
(***************************************************************************)
\* the trimmed texts that start at position from of t
SectionsFrom(t, from) ==
    {Trimmed(SubSeq(t, from, e)) : e \in (from - 1)..Len(t)}

\* C21: each key's variants are tried in declared order and the first that
\* occurs anywhere in the text is used, its first occurrence opening the
\* section: the value stored under the key is taken from text that starts
\* right after that occurrence, also when a later-declared variant of the key
\* stands earlier in the text.
C21_FirstDeclaredVariant ==
    /\ ParsedMission =>
           \A K \in DOMAIN out :
               \E c \in SectionsFrom(text, ContentStart(text,
                            UsedHeader(MissionSections, K, text))) :
                   IsMissionValue(out[K], K, c)
    /\ ParsedSocratic =>
           \A K \in DOMAIN out :
               \E c \in SectionsFrom(text, ContentStart(text,
                            UsedHeader(SocraticSections, K, text))) :
                   IsSocraticValue(out[K], c)
    /\ op = "_extract_section_content" =>
           /\ out.header = UsedHeader(SocraticSections, out.key, text)
           /\ out.content \in SectionsFrom(text, ContentStart(text, out.header))

\* C21's case: 'Goal:' stands before 'GOAL:' and the goal is what follows
\* 'GOAL:'.
C21_Witness ==
    /\ ParsedMission
    /\ text = H_Goal \o <<" ", "a", "\n">> \o H_GOAL \o <<"1", ".", " ", "b">>
    /\ out["goal"] = Str(<<"1", ".", " ", "b">>)


(***************************************************************************)
(* The template solution_mode goes on with.                                *)
(***************************************************************************)
\* the line that opens the instructions of a template kind
InstructionLine(kind) ==
    CASE kind = "swot" ->
             <<"G", "e", "n", "e", "r", "a", "t", "e", " ", "a", " ", "S", "W",
               "O", "T", " ", "A", "n", "a", "l", "y", "s", "i", "s", " ", "t",
               "e", "m", "p", "l", "a", "t", "e", ":">>
      [] kind = "budget" ->
             <<"G", "e", "n", "e", "r", "a", "t", "e", " ", "a", " ", "B", "u",
               "d", "g", "e", "t", " ", "O", "u", "t", "l", "i", "n", "e", " ",
               "t", "e", "m", "p", "l", "a", "t", "e", ":">>
      [] kind = "stakeholder" ->
             <<"G", "e", "n", "e", "r", "a", "t", "e", " ", "a", " ", "S", "t",
               "a", "k", "e", "h", "o", "l", "d", "e", "r", " ", "A", "n", "a",
               "l", "y", "s", "i", "s", " ", "t", "e", "m", "p", "l", "a", "t",
               "e", ":">>
      [] kind = "timeline" ->
             <<"G", "e", "n", "e", "r", "a", "t", "e", " ", "a", " ", "P", "r",
               "o", "j", "e", "c", "t", " ", "T", "i", "m", "e", "l", "i", "n",
               "e", " ", "t", "e", "m", "p", "l", "a", "t", "e", ":">>
      [] OTHER ->
             <<"G", "e", "n", "e", "r", "a", "t", "e", " ", "a", "n", " ", "A",
               "c", "t", "i", "o", "n", " ", "P", "l", "a", "n", " ", "t", "e",
               "m", "p", "l", "a", "t", "e", ":">>

InstructionLines ==
    {InstructionLine(k) :
        k \in {"swot", "budget", "stakeholder", "timeline", "action_plan"}}

ExplicitSolutionCalls ==
    {i \in 1..Len(calls) :
        /\ calls[i].service = "solution_mode"
        /\ calls[i].args.template_type # "auto"}

\* C22: solution_mode with a template_type other than 'auto' reports exactly
\* that template_type, whatever keywords the description holds, and its
\* prompt holds the instructions of that kind and of no other; for a
\* template_type that is none of the five kinds the prompt holds the
\* action-plan instructions and the result still reports the type given.
C22_ExplicitTemplate ==
    \A i \in ExplicitSolutionCalls :
        LET given == calls[i].args.template_type
        IN  /\ calls[i].result.success =>
                   calls[i].result.template_type = given
            /\ \A line \in InstructionLines :
                   Occurs(calls[i].prompt, line) <=> line = InstructionLine(given)

\* C22's case: 'canvas' is asked for a description that holds 'budget'; the
\* prompt holds the action-plan instructions and the result says 'canvas'.
C22_Witness ==
    /\ op = "solution_mode"
    /\ calls[1].args.template_type = "canvas"
    /\ Occurs(calls[1].args.problem_description,
              <<"b", "u", "d", "g", "e", "t">>)
    /\ Occurs(calls[1].prompt, InstructionLine("action_plan"))
    /\ out.success
    /\ out.template_type = "canvas"


(***************************************************************************)
(* The two transcripts of the chat.                                        *)
(***************************************************************************)
ChatActions == {"chat_send", "clear_conversation"}

\* C23: the transcript the UI shows equals the mentor's conversation_history,
\* entry for entry, after every Send, whether its call succeeds or fails, and
\* after every Clear Conversation: each of the two actions, taken where the
\* transcripts are equal, leaves them equal.
C23_TranscriptsEqual ==
    [][(/\ op' \in ChatActions
        /\ mentor_conversation = conversation_history) =>
           mentor_conversation' = conversation_history']_vars

\* what the code keeps: the transcripts stay equal over a Clear Conversation,
\* a Send without a message and a Send whose call succeeds
C23_EqualWhileSucceeding ==
    [][(/\ op' \in ChatActions
        /\ mentor_conversation = conversation_history
        /\ calls' = <<>> \/ calls'[1].result.success) =>
           mentor_conversation' = conversation_history']_vars


(***************************************************************************)
(* How a chat turn grows the history.                                      *)
(***************************************************************************)
Entry(role, content) == [role |-> role, content |-> content]

\* C24: interactive_mentoring appends the user message before it calls the
\* service: a successful turn appends the user entry and then the mentor
\* entry, and returns the new length as conversation_length; a failed turn
\* appends the user entry alone, so the history can then hold two user entries
\* in a row.
C24_HistoryGrowth ==
    [][(/\ op' \in {"interactive_mentoring", "chat_send"}
        /\ calls' # <<>>) =>
           LET result == calls'[1].result
           IN  IF result.success
               THEN /\ conversation_history' =
                           conversation_history \o
                               <<Entry("user", result.user_message),
                                 Entry("mentor", result.mentor_response)>>
                    /\ calls'[1].ai.ok
                    /\ result.mentor_response = calls'[1].ai.text
                    /\ result.conversation_length = Len(conversation_history')
               ELSE /\ ~calls'[1].ai.ok
                    /\ \E m \in UserMessages :
                           conversation_history' =
                               Append(conversation_history, Entry("user", m))]_vars

\* C24's case: a turn failed after another failed turn; the history ends with
\* two user entries.
C24_Witness ==
    /\ op = "interactive_mentoring"
    /\ ~out.success
    /\ Len(conversation_history) >= 2
    /\ conversation_history[Len(conversation_history)].role = "user"
    /\ conversation_history[Len(conversation_history) - 1].role = "user"


(***************************************************************************)
(* The history a chat prompt carries.                                      *)
(***************************************************************************)
\* the calls of interactive_mentoring in the state, and the history each
\* prompt was built from: the history of the state without the mentor's reply
MentoringCalls ==
    {i \in 1..Len(calls) : calls[i].service = "interactive_mentoring"}

HistoryAsked ==
    IF calls[1].result.success
    THEN SubSeq(conversation_history, 1, Len(conversation_history) - 1)
    ELSE conversation_history

\* the entries from position from on, one 'Role: content' line each
EntryLines(h, from) ==
    JoinWith([i \in 1..(Len(h) - from + 1) |->
                 (IF h[from + i - 1].role = "user" THEN <<"U", "s", "e", "r",
                     ":", " ">>
                  ELSE <<"M", "e", "n", "t", "o", "r", ":", " ">>)
                 \o h[from + i - 1].content \o <<"\n">>],
             <<>>)

\* C25: the prompt of interactive_mentoring holds the 4 most recent entries of
\* the history (all of them when there are fewer), in transcript order and no
\* others; the last of them is the current user message, which the final
\* 'User:' line repeats.
C25_LastFourEntries ==
    \A c \in MentoringCalls :
        LET h == HistoryAsked
            from == IF Len(h) > 4 THEN Len(h) - 3 ELSE 1
            block == FirstAt(calls[c].prompt, <<"\n", "C", "o", "n", "v",
                "e", "r", "s", "a", "t", "i", "o", "n", " ", "h", "i", "s",
                "t", "o", "r", "y", ":", "\n">>)
        IN  /\ h[Len(h)] = Entry("user", calls[c].args.user_message)
            /\ SubSeq(calls[c].prompt, block, Len(calls[c].prompt)) =
                   <<"\n", "C", "o", "n", "v", "e", "r", "s", "a", "t", "i",
                     "o", "n", " ", "h", "i", "s", "t", "o", "r", "y", ":",
                     "\n">> \o EntryLines(h, from)
                   \o <<"\n", "\n", "U", "s", "e", "r", ":",
                        " ">> \o calls[c].args.user_message
                   \o <<"\n", "\n", "M", "e", "n", "t", "o", "r", " ", "r",
                        "e", "s", "p", "o", "n", "s", "e", ":">>
            /\ ~Occurs(SubSeq(calls[c].prompt, 1, block), <<"U", "s", "e",
                "r", ":", " ">>)
            /\ ~Occurs(SubSeq(calls[c].prompt, 1, block), <<"M", "e", "n",
                "t", "o", "r", ":", " ">>)

\* C25's case: the third message of a conversation is sent after two answered
\* ones; the history holds five entries and the prompt starts its history with
\* the mentor's first reply, the first user message being left out.
C25_Witness ==
    /\ op = "interactive_mentoring"
    /\ MentoringCalls # {}
    /\ Len(HistoryAsked) = 5
    /\ conversation_history[2].role = "mentor"
    /\ Occurs(calls[1].prompt,
              <<"\n", "C", "o", "n", "v", "e", "r", "s", "a", "t", "i", "o",
                "n", " ", "h", "i", "s", "t", "o", "r", "y", ":", "\n", "M",
                "e", "n", "t", "o", "r", ":", " ">>
              \o conversation_history[2].content)


(***************************************************************************)
(* What _parse_classification returns on every response.                   *)
(***************************************************************************)
ConfidenceLevels == {<<"H", "i", "g", "h">>, <<"M", "e", "d", "i", "u",
                       "m">>, <<"L", "o", "w">>, <<"U", "n", "k", "n", "o",
                       "w", "n">>}

\* C26: on every response the category returned is one of known_categories,
\* the confidence is 'High', 'Medium', 'Low' or 'Unknown', and the reasoning
\* is not empty unless the response is.
C26_ClassificationRange ==
    Classified =>
        /\ \E i \in 1..Len(Categories) : out.category = Categories[i]
        /\ out.confidence \in ConfidenceLevels
        /\ text # <<>> => out.reasoning # <<>>

\* C26's case: a response of one line break, with no category, no keyword and
\* no marker, gets the first category, 'Unknown' and itself as the reasoning.
C26_Witness ==
    /\ Classified
    /\ text = <<"\n">>
    /\ out.category = Categories[1]
    /\ out.confidence = <<"U", "n", "k", "n", "o", "w", "n">>
    /\ out.reasoning = <<"\n">>

(***************************************************************************)
(* The second search for a category, on the lines under a category header. *)
(***************************************************************************)
\* the second search runs: the first found nothing and a category header is
\* in the response
SecondStageRuns(t) ==
    /\ CategoriesIn(t) = {}
    /\ \/ Occurs(t, <<"P", "R", "I", "M", "A", "R", "Y", " ", "C", "A", "T",
                      "E", "G", "O", "R", "Y", ":">>)
       \/ Occurs(t, <<"C", "a", "t", "e", "g", "o", "r", "y", ":">>)

\* C27: the second search never assigns a category.  When it runs, no line of
\* the response holds a known category and the scan of the lines gives none;
\* the category returned is always the first listed of those that occur in
\* the whole response, or known_categories[0] when none occurs.
C27_SecondStageIdle ==
    Classified =>
        /\ SecondStageRuns(text) =>
              /\ \A k \in 1..LineCount(text) :
                     CategoriesIn(LineAt(text, k)) = {}
              /\ CategoryFromLines(PySplit(text, <<"\n">>), <<>>) = <<>>
        /\ out.category =
              IF CategoriesIn(text) # {}
              THEN Categories[MinOf(CategoriesIn(text))]
              ELSE Categories[1]

\* C27's case: the second search runs on two lines under a category header and
\* the default category is returned.
C27_Witness ==
    /\ Classified
    /\ SecondStageRuns(text)
    /\ text = <<"P", "R", "I", "M", "A", "R", "Y", " ", "C", "A", "T", "E",
                "G", "O", "R", "Y", ":", "\n", "C", "a", "t", "e", "g", "o",
                "r", "y", ":">>
    /\ out.category = Categories[1]


(***************************************************************************)
(* The action steps of a mission.                                          *)
(***************************************************************************)
StepMarkers == Digits \cup {"-", "U+2022"}

\* the numbers of the lines of t that, trimmed, start with a step marker
MarkedLines(t) ==
    {k \in 1..LineCount(t) :
        /\ Trimmed(LineAt(t, k)) # <<>>
        /\ Trimmed(LineAt(t, k))[1] \in StepMarkers}

\* C28: action_steps holds, in source order, exactly the trimmed lines of the
\* ACTION STEPS section that start with a digit, '-' or the bullet, marker
\* included; every other line of the section, those that start with '*'
\* among them, is left out.
C28_MarkedLinesKept ==
    (ParsedMission /\ "action_steps" \in DOMAIN out) =>
        LET section == SpecContent(text, MissionSections, "action_steps")
            steps == out["action_steps"].value
        IN  /\ out["action_steps"].type = "list"
            /\ Len(steps) = Cardinality(MarkedLines(section))
            /\ \A k \in MarkedLines(section) :
                   steps[Cardinality({j \in MarkedLines(section) : j <= k})]
                       = Trimmed(LineAt(section, k))
            /\ \A i \in 1..Len(steps) : steps[i][1] \in StepMarkers

\* C28's case: a numbered line, a line bulleted with '*' and a line bulleted
\* with the bullet follow the header; the first and the last are kept whole.
C28_Witness ==
    /\ ParsedMission
    /\ text = H_ACTION_STEPS \o <<"1", ".", " ", "a", "\n", "*", " ", "c",
                                  "\n">> \o <<"U+2022", " ", "d", "\n">>
    /\ out["action_steps"] = List(<<<<"1", ".", " ", "a">>, <<"U+2022", " ",
                                    "d">> >>)


(***************************************************************************)
(* The three parts of a solution template response.                        *)
(***************************************************************************)
ParsedTemplate == op = "_parse_template_response"

\* the text of t after the first occurrence of header H
AfterFirst(t, H) == SubSeq(t, ContentStart(t, H), Len(t))

\* C29: the result has exactly the keys template, guide and tips.  Without
\* 'IMPLEMENTATION GUIDE:' in the response they are {'raw': response}, '' and
\* [].  With it, the template is parsed from the text before its first
\* occurrence, the guide is the trimmed text from there to the first
\* 'PRACTICAL TIPS:' that follows, or to the end when none follows, and the
\* tips are the list items of the text after that 'PRACTICAL TIPS:'.
C29_TemplateParts ==
    ParsedTemplate =>
        /\ DOMAIN out = {"template", "guide", "tips"}
        /\ IF ~Occurs(text, H_IMPLEMENTATION_GUIDE)
           THEN /\ DOMAIN out.template = {"raw"}
                /\ out.template.raw = text
                /\ out.guide = Str(<<>>)
                /\ out.tips = List(<<>>)
           ELSE LET rest == AfterFirst(text, H_IMPLEMENTATION_GUIDE)
                IN  /\ \E kind \in TemplateKinds :
                           out.template = _parse_template_structure(
                               SubSeq(text, 1,
                                   FirstAt(text, H_IMPLEMENTATION_GUIDE) - 1),
                               kind)
                    /\ out.guide =
                           Str(Trimmed(UpToNearest(rest, 1,
                                                   {H_PRACTICAL_TIPS})))
                    /\ out.tips.type = "list"
                    /\ IF Occurs(rest, H_PRACTICAL_TIPS)
                       THEN ItemsOfLines(out.tips.value,
                                Trimmed(AfterFirst(rest, H_PRACTICAL_TIPS)),
                                SpecItem)
                       ELSE out.tips.value = <<>>

\* what the code returns when 'IMPLEMENTATION GUIDE:' occurs: the guide and the
\* tips are taken from the text between its first and its second occurrence,
\* and the tips from the text between the first and the second
\* 'PRACTICAL TIPS:' in there
C29_PartsAsCoded ==
    (ParsedTemplate /\ Occurs(text, H_IMPLEMENTATION_GUIDE)) =>
        LET rest == UpToNearest(AfterFirst(text, H_IMPLEMENTATION_GUIDE), 1,
                                {H_IMPLEMENTATION_GUIDE})
        IN  /\ out.guide =
                   Str(Trimmed(UpToNearest(rest, 1, {H_PRACTICAL_TIPS})))
            /\ out.tips.type = "list"
            /\ IF Occurs(rest, H_PRACTICAL_TIPS)
               THEN ItemsOfLines(out.tips.value,
                        Trimmed(UpToNearest(AfterFirst(rest,
                            H_PRACTICAL_TIPS),
                                            1, {H_PRACTICAL_TIPS})),
                        SpecItem)
               ELSE out.tips.value = <<>>


(***************************************************************************)
(* The sections of a template.                                             *)
(***************************************************************************)
ParsedStructure == op = "_parse_template_structure"

\* the lines of t, trimmed
TrimmedLines(t) == [k \in 1..LineCount(t) |-> Trimmed(LineAt(t, k))]

\* s without its occurrences of the character c
Without(s, c) ==
    LET kept == {i \in 1..Len(s) : s[i] # c}
    IN  [n \in 1..Cardinality(kept) |->
            s[CHOOSE i \in kept : Cardinality({j \in kept : j <= i}) = n]]

\* the numbers of the header lines: not blank, upper-case and with a ':'
HeaderLines(lines) ==
    {k \in 1..Len(lines) :
        /\ \E i \in 1..Len(lines[k]) : lines[k][i] \in DOMAIN ToLower
        /\ \A i \in 1..Len(lines[k]) : lines[k][i] \notin DOMAIN ToUpper
        /\ \E i \in 1..Len(lines[k]) : lines[k][i] = ":"}

\* the name of the header in a line
SectionName(line) == Trimmed(Without(line, ":"))

\* the numbers of the lines assigned to the header of line h: the non-blank,
\* non-header lines after h and before the next header
LinesUnder(lines, headers, h) ==
    {k \in (h + 1)..Len(lines) :
        /\ lines[k] # <<>>
        /\ \A j \in (h + 1)..k : j \notin headers}

\* C30: every non-blank upper-case line with a ':' is a section header; the
\* structure has one key per header name, and under it, in order, the
\* non-blank non-header lines that follow the last header of that name up to
\* the next header.  Lines before the first header are in no section, and the
\* lines under an earlier occurrence of a repeated header are discarded.
C30_SectionsByHeader ==
    ParsedStructure =>
        LET lines == TrimmedLines(text)
            headers == HeaderLines(lines)
        IN  /\ DOMAIN out = {SectionName(lines[h]) : h \in headers}
            /\ \A h \in headers :
                   LET name == SectionName(lines[h])
                       last == MaxOf({g \in headers :
                                       SectionName(lines[g]) = name})
                       under == LinesUnder(lines, headers, last)
                       items == out[name]
                   IN  /\ Len(items) = Cardinality(under)
                       /\ \A k \in under :
                              items[Cardinality({j \in under : j <= k})]
                                  = lines[k]

\* C30's case: an item before the first header, a header with an item, and the
\* same header again with another item; only the last item is in the result.
C30_Witness ==
    /\ ParsedStructure
    /\ text = <<" ", "b", " ", "\n", "S", "T", "R", "E", "N", "G", "T", "H",
                "S", ":", "\n", "-", " ", "a", "\n", "S", "T", "R", "E", "N",
                "G", "T", "H", "S", ":", "\n", " ", "b", " ", "\n">>
    /\ DOMAIN out = {<<"S", "T", "R", "E", "N", "G", "T", "H", "S">>}
    /\ out[<<"S", "T", "R", "E", "N", "G", "T", "H", "S">>] = <<<<"b">>>>

====
